---------------------------- MODULE Spec2Model ----------------------------
(***************************************************************************)
(* A model of lookup-go (src/main.go): the mapping-rule parser, the        *)
(* matcher engine, the enrichment of one record and the stream processor.  *)
(*                                                                         *)
(* Strings are sequences of one-character strings, so that case folding,   *)
(* trimming, splitting and pattern matching are computed character by      *)
(* character.  A JSON value is a record [t, s]: t is its JSON type and s   *)
(* the text of a string value.  A JSON object (map[string]interface{}) is  *)
(* a record [isNil, f]: f maps field names to JSON values, isNil tells the *)
(* nil map that json.Unmarshal leaves for the literal null.                *)
(***************************************************************************)
EXTENDS Integers, Sequences, FiniteSets, TLC

VARIABLES
    mappingStr,     \* flag -m
    isDnsLookup,    \* flag --dns
    dnsServerAddr,  \* flag --dns-server
    config,         \* the configuration file's matchers, in file order
    dataExt,        \* the extension of the data source's path, in lower case
    dataSource,     \* the data source file: the rows of a JSON file, the
                    \* records of a CSV file, in file order
    stdin,          \* the whole standard input
    pc,             \* position of the run in main / processInput
    mapping,        \* main's mapping
    matcher,        \* main's matcher: an index into config, 0 for nil
    lookupData,     \* main's lookupData
    mode,           \* the branch processInput took: "none", "array", "line"
    dataArray,      \* processInput's dataArray
    resultsArray,   \* processInput's resultsArray
    idx,            \* the next element of dataArray or the next line
    stdout,         \* what was printed, in order
    stderr,         \* what was logged, in order
    exit,           \* "running", "ok" (return from main) or "fatal" (log.Fatal)
    last            \* the most recent call of processObject

vars == <<mappingStr, isDnsLookup, dnsServerAddr, config, dataExt, dataSource, stdin,
          pc, mapping, matcher, lookupData, mode, dataArray, resultsArray,
          idx, stdout, stderr, exit, last>>

inputs == <<mappingStr, isDnsLookup, dnsServerAddr, config, dataExt, dataSource,
            stdin>>

(***************************************************************************)
(* Bounds of the model.                                                    *)
(***************************************************************************)
MaxRows == 3
MaxLines == 3
MaxDnsRecords == 2

(***************************************************************************)
(* Strings.                                                                *)
(***************************************************************************)
Max2(a, b) == IF a > b THEN a ELSE b
Min2(a, b) == IF a < b THEN a ELSE b

IsSpace(c) == c \in {" ", "\t"}

\* The characters of the model, in the order of their codes.
Ascii == <<"\t", " ", "$", "*", "+", ",", "-", ".", "/",
           "0", "1", "2", "3", "4", "5", "6", "7", "8", "9", ":", "?",
           "A", "B", "C", "D", "E", "F", "G", "H", "I", "J", "K", "L", "M",
           "N", "O", "P", "Q", "R", "S", "T", "U", "V", "W", "X", "Y", "Z",
           "[", "\\", "]", "^",
           "a", "b", "c", "d", "e", "f", "g", "h", "i", "j", "k", "l", "m",
           "n", "o", "p", "q", "r", "s", "t", "u", "v", "w", "x", "y", "z">>

Code(c) == CHOOSE i \in DOMAIN Ascii : Ascii[i] = c

InRange(c, lo, hi) == Code(lo) <= Code(c) /\ Code(c) <= Code(hi)

ToLowerChar(c) ==
    IF InRange(c, "A", "Z") THEN Ascii[Code(c) - Code("A") + Code("a")] ELSE c

ToLower(s) == [i \in DOMAIN s |-> ToLowerChar(s[i])]

\* s[from..] and s[from..to), positions counted from 1.
Drop(s, n) == SubSeq(s, n + 1, Len(s))
Take(s, n) == SubSeq(s, 1, n)

HasPrefix(s, p) == Len(s) >= Len(p) /\ Take(s, Len(p)) = p

RECURSIVE TrimLeft(_)
TrimLeft(s) == IF s # <<>> /\ IsSpace(s[1]) THEN TrimLeft(Tail(s)) ELSE s

RECURSIVE TrimRight(_)
TrimRight(s) ==
    IF s # <<>> /\ IsSpace(s[Len(s)]) THEN TrimRight(Take(s, Len(s) - 1)) ELSE s

TrimSpace(s) == TrimRight(TrimLeft(s))

\* The length of the longest prefix of s made of whitespace / of no whitespace.
RECURSIVE SpaceRun(_)
SpaceRun(s) == IF s # <<>> /\ IsSpace(s[1]) THEN 1 + SpaceRun(Tail(s)) ELSE 0

RECURSIVE WordRun(_)
WordRun(s) == IF s # <<>> /\ ~IsSpace(s[1]) THEN 1 + WordRun(Tail(s)) ELSE 0

\* strings.Split(s, sep) for a one-character separator.
RECURSIVE SplitChar(_, _)
SplitChar(s, sep) ==
    IF \E i \in DOMAIN s : s[i] = sep
    THEN LET i == CHOOSE i \in DOMAIN s :
                      s[i] = sep /\ \A j \in 1..(i - 1) : s[j] # sep
         IN  <<Take(s, i - 1)>> \o SplitChar(Drop(s, i), sep)
    ELSE <<s>>

(***************************************************************************)
(* parseMapping.                                                           *)
(***************************************************************************)
kwAs == <<"a", "s">>
kwOutput == <<"O", "U", "T", "P", "U", "T">>

NoMatch == [ok |-> FALSE, g |-> <<>>]

\* The end of one step of a pattern on s from position p (the number of
\* characters before it): a run of whitespace (\s+ and \s*), a run of other
\* characters (\S+), or a literal word.  A step that matches nothing ends
\* where it starts.
StepEnd(s, p, step) ==
    CASE step = "space" -> p + SpaceRun(Drop(s, p))
      [] step = "word" -> p + WordRun(Drop(s, p))
      [] step = "as" -> IF HasPrefix(Drop(s, p), kwAs) THEN p + Len(kwAs) ELSE p
      [] step = "OUTPUT" ->
             IF HasPrefix(Drop(s, p), kwOutput) THEN p + Len(kwOutput) ELSE p

\* The ends of the steps, taken one after the other from position p.
RECURSIVE StepEnds(_, _, _)
StepEnds(s, p, steps) ==
    IF steps = <<>> THEN <<>>
    ELSE <<StepEnd(s, p, Head(steps))>>
         \o StepEnds(s, StepEnd(s, p, Head(steps)), Tail(steps))

\* Every step but the first starts where the one before ended and is not empty.
Advances(p, e) == \A k \in DOMAIN e : e[k] > (IF k = 1 THEN p ELSE e[k - 1])

RuleHead == <<"word", "space", "as", "space", "word">>
RuleClause == <<"space", "OUTPUT", "space">>

\* RuleGroups without the anchor at the end of the pattern.
RuleGroupsUnanchored(m, e, c) ==
    IF ~Advances(0, e) THEN NoMatch
    ELSE IF e[5] = Len(m) \/ ~Advances(e[5], c)
    THEN [ok |-> TRUE,
          g |-> <<m, Take(m, e[1]), SubSeq(m, e[4] + 1, e[5]), <<>>, <<>>>>]
    ELSE [ok |-> TRUE,
          g |-> <<m, Take(m, e[1]), SubSeq(m, e[4] + 1, e[5]),
                  Drop(m, e[5]), Drop(m, c[3])>>]

\* The submatches, e the ends of the steps of RuleHead and c those of
\* RuleClause after them.
RuleGroups(m, e, c) ==
    IF ~Advances(0, e) THEN NoMatch
    ELSE IF e[5] = Len(m)
    THEN [ok |-> TRUE,
          g |-> <<m, Take(m, e[1]), SubSeq(m, e[4] + 1, e[5]), <<>>, <<>>>>]
    ELSE IF ~Advances(e[5], c) THEN NoMatch
    ELSE [ok |-> TRUE,
          g |-> <<m, Take(m, e[1]), SubSeq(m, e[4] + 1, e[5]),
                  Drop(m, e[5]), Drop(m, c[3])>>]

\* `^(\S+)\s+as\s+(\S+)(\s+OUTPUT\s+(.*))?$` on m: the submatches, or NoMatch.
\* Group 1 and group 2 hold no whitespace and stand before whitespace or the
\* end, and every \s+ is followed by a character that is no whitespace, so
\* the leftmost-first match takes each run whole.  The alphabet of the model
\* has no line break ('.' matches every character of it).
RuleRegexp(m) ==
    RuleGroups(m, StepEnds(m, 0, RuleHead),
               StepEnds(m, StepEnds(m, 0, RuleHead)[5], RuleClause))

AsSteps == <<"space", "as", "space">>

\* The end of the match of `\s+as\s+` that starts at the i-th character of
\* s, 0 when there is none.
AsEnd(i, e) == IF Advances(i - 1, e) THEN e[3] ELSE 0

AsMatchAt(s, i) == AsEnd(i, StepEnds(s, i - 1, AsSteps))

\* regexp.MustCompile(`\s+as\s+`).Split(pair, 2), the leftmost match
\* starting at the i-th character (0: no match).
SplitAt(pair, i, end) ==
    IF pair = <<>> THEN << <<>> >>
    ELSE IF i = 0 THEN <<pair>>
    ELSE <<Take(pair, i - 1)>>
         \o (IF i - 1 # Len(pair) THEN <<Drop(pair, end)>> ELSE <<>>)

FirstAs(s) ==
    IF \E i \in DOMAIN s : AsMatchAt(s, i) > 0
    THEN CHOOSE i \in DOMAIN s :
             AsMatchAt(s, i) > 0 /\ \A j \in 1..(i - 1) : AsMatchAt(s, j) = 0
    ELSE 0

SplitAs(pair) ==
    SplitAt(pair, FirstAs(pair),
            IF FirstAs(pair) = 0 THEN 0 ELSE AsMatchAt(pair, FirstAs(pair)))

MapPut(f, k, v) == [x \in (DOMAIN f) \cup {k} |-> IF x = k THEN v ELSE f[x]]

\* PutPair keeping the entry a source already has.
PutPairKeepFirst(om, pair, parts) ==
    IF pair = <<>> THEN om
    ELSE IF Len(parts) = 2
    THEN IF TrimSpace(parts[1]) \in DOMAIN om THEN om
         ELSE MapPut(om, TrimSpace(parts[1]), TrimSpace(parts[2]))
    ELSE IF pair \in DOMAIN om THEN om ELSE MapPut(om, pair, pair)

\* One pair of the loop over outputPairs, pair trimmed and parts its split.
PutPair(om, pair, parts) ==
    IF pair = <<>> THEN om
    ELSE IF Len(parts) = 2
    THEN MapPut(om, TrimSpace(parts[1]), TrimSpace(parts[2]))
    ELSE MapPut(om, pair, pair)

\* The loop over outputPairs: the output map after the pairs from the i-th on.
RECURSIVE OutputPairs(_, _, _)
OutputPairs(pairs, i, om) ==
    IF i > Len(pairs) THEN om
    ELSE OutputPairs(pairs, i + 1,
                     PutPair(om, TrimSpace(pairs[i]), SplitAs(TrimSpace(pairs[i]))))

NilMapping == [err |-> TRUE, InputField |-> <<>>, LookupField |-> <<>>,
               OutputMap |-> <<>>]

\* parseMapping after the match: matches are the submatches.
MappingOf(matches) ==
    IF ~matches.ok THEN NilMapping
    ELSE [err |-> FALSE,
          InputField |-> matches.g[2],
          LookupField |-> matches.g[3],
          OutputMap |-> IF matches.g[5] # <<>>
                        THEN OutputPairs(SplitChar(matches.g[5], ","), 1, <<>>)
                        ELSE <<>>]

parseMapping(m) == MappingOf(RuleRegexp(m))

(***************************************************************************)
(* filepath.Match (path/filepath, the Unix build), as findMatch calls it   *)
(* for method wildcard.                                                    *)
(***************************************************************************)
Separator == "/"

\* scanChunk's loop: the length of the chunk at the head of pattern p.
RECURSIVE ScanEnd(_, _, _)
ScanEnd(p, i, inrange) ==
    IF i >= Len(p) THEN i
    ELSE CASE p[i + 1] = "\\" ->
                  ScanEnd(p, IF i + 1 < Len(p) THEN i + 2 ELSE i + 1, inrange)
           [] p[i + 1] = "[" -> ScanEnd(p, i + 1, TRUE)
           [] p[i + 1] = "]" -> ScanEnd(p, i + 1, FALSE)
           [] p[i + 1] = "*" -> IF inrange THEN ScanEnd(p, i + 1, inrange) ELSE i
           [] OTHER -> ScanEnd(p, i + 1, inrange)

RECURSIVE StarRun(_)
StarRun(p) == IF p # <<>> /\ p[1] = "*" THEN 1 + StarRun(Tail(p)) ELSE 0

\* scanChunk after the leading stars: p is what follows them.
ChunkOf(star, p, i) == [star |-> star, chunk |-> Take(p, i), rest |-> Drop(p, i)]

StarsOff(star, p) == ChunkOf(star, p, ScanEnd(p, 0, FALSE))

scanChunk(pattern) == StarsOff(StarRun(pattern) > 0, Drop(pattern, StarRun(pattern)))

BadEsc == [err |-> TRUE, r |-> "", nchunk |-> <<>>]

\* getEsc after the backslash, if any: c starts with the character.
EscOf(c) ==
    IF c = <<>> THEN BadEsc
    ELSE [err |-> Tail(c) = <<>>, r |-> c[1], nchunk |-> Tail(c)]

\* getEsc: r is the character, nchunk what follows it.
getEsc(chunk) ==
    IF chunk = <<>> \/ chunk[1] = "-" \/ chunk[1] = "]" THEN BadEsc
    ELSE EscOf(IF chunk[1] = "\\" THEN Tail(chunk) ELSE chunk)

\* r is "" for the zero rune of a match that has already failed.
RuneIn(r, lo, hi) == r # "" /\ InRange(r, lo, hi)

BadClass == [err |-> TRUE, chunk |-> <<>>, match |-> FALSE]

\* The loop "parse all ranges" of matchChunk; RangeLo and RangeHi are its
\* body after lo and after hi are read.
RECURSIVE ClassRanges(_, _, _, _)
RangeHi(r, match, nrange, lo, hi) ==
    IF hi.err THEN BadClass
    ELSE ClassRanges(hi.nchunk, r, match \/ RuneIn(r, lo.r, hi.r), nrange + 1)

RangeLo(r, match, nrange, lo) ==
    IF lo.err THEN BadClass
    ELSE IF lo.nchunk[1] = "-"
    THEN RangeHi(r, match, nrange, lo, getEsc(Tail(lo.nchunk)))
    ELSE ClassRanges(lo.nchunk, r, match \/ RuneIn(r, lo.r, lo.r), nrange + 1)

ClassRanges(chunk, r, match, nrange) ==
    IF chunk # <<>> /\ chunk[1] = "]" /\ nrange > 0
    THEN [err |-> FALSE, chunk |-> Tail(chunk), match |-> match]
    ELSE RangeLo(r, match, nrange, getEsc(chunk))

NoChunk == [rest |-> <<>>, ok |-> FALSE, err |-> FALSE]
BadChunk == [rest |-> <<>>, ok |-> FALSE, err |-> TRUE]

\* case '[' of matchChunk: c follows the bracket.
Negated(c) == c # <<>> /\ c[1] = "^"

ClassOf(c, r) == ClassRanges(IF Negated(c) THEN Tail(c) ELSE c, r, FALSE, 0)

\* The loop of matchChunk; failed is set once the name has run out or a
\* character has not matched, and the chunk is then only checked.
RECURSIVE ChunkLoop(_, _, _)
ClassStep(s1, failed, negated, cl) ==
    IF cl.err THEN BadChunk
    ELSE ChunkLoop(cl.chunk, s1, failed \/ (cl.match = negated))

ChunkStep(chunk, s, failed) ==
    CASE chunk[1] = "[" ->
           ClassStep(IF failed THEN s ELSE Tail(s), failed, Negated(Tail(chunk)),
                     ClassOf(Tail(chunk), IF failed THEN "" ELSE s[1]))
      [] chunk[1] = "?" ->
           ChunkLoop(Tail(chunk), IF failed THEN s ELSE Tail(s),
                     failed \/ (~failed /\ s[1] = Separator))
      [] chunk[1] = "\\" ->
           IF Tail(chunk) = <<>> THEN BadChunk
           ELSE ChunkLoop(Tail(Tail(chunk)), IF failed THEN s ELSE Tail(s),
                          failed \/ (~failed /\ chunk[2] # s[1]))
      [] OTHER ->
           ChunkLoop(Tail(chunk), IF failed THEN s ELSE Tail(s),
                     failed \/ (~failed /\ chunk[1] # s[1]))

ChunkLoop(chunk, s, wasFailed) ==
    IF chunk = <<>>
    THEN IF wasFailed THEN NoChunk ELSE [rest |-> s, ok |-> TRUE, err |-> FALSE]
    ELSE ChunkStep(chunk, s, wasFailed \/ s = <<>>)

matchChunk(chunk, s) == ChunkLoop(chunk, s, FALSE)

\* The loop "Look for match skipping i+1 bytes" of Match: the name to go on
\* with (kind "next"), an error, or nothing found.  StarTry is its body, m
\* what matchChunk returned.
RECURSIVE StarScan(_, _, _, _)
StarTry(chunk, rest, name, i, m) ==
    IF m.ok
    THEN IF rest = <<>> /\ m.rest # <<>>
         THEN StarScan(chunk, rest, name, i + 1)
         ELSE [kind |-> "next", name |-> m.rest]
    ELSE IF m.err THEN [kind |-> "err", name |-> <<>>]
    ELSE StarScan(chunk, rest, name, i + 1)

StarScan(chunk, rest, name, i) ==
    IF ~(i < Len(name) /\ name[i + 1] # Separator)
    THEN [kind |-> "none", name |-> <<>>]
    ELSE StarTry(chunk, rest, name, i, matchChunk(chunk, Drop(name, i + 1)))

\* "check that the remainder of the pattern is syntactically valid"
RECURSIVE RestIsBad(_)
RestChunkBad(sc) == matchChunk(sc.chunk, <<>>).err \/ RestIsBad(sc.rest)

RestIsBad(pattern) == pattern # <<>> /\ RestChunkBad(scanChunk(pattern))

\* filepath.Match; MatchChunk is the body of its loop for the chunk sc,
\* MatchTry what follows the first matchChunk (m), MatchStar what follows
\* the scan after a star (ss).
RECURSIVE Match(_, _)
MatchStar(sc, ss) ==
    IF ss.kind = "next" THEN Match(sc.rest, ss.name)
    ELSE IF ss.kind = "err" THEN [matched |-> FALSE, err |-> TRUE]
    ELSE [matched |-> FALSE, err |-> RestIsBad(sc.rest)]

MatchTry(name, sc, m) ==
    IF m.ok /\ (m.rest = <<>> \/ sc.rest # <<>>) THEN Match(sc.rest, m.rest)
    ELSE IF m.err THEN [matched |-> FALSE, err |-> TRUE]
    ELSE IF sc.star THEN MatchStar(sc, StarScan(sc.chunk, sc.rest, name, 0))
    ELSE [matched |-> FALSE, err |-> RestIsBad(sc.rest)]

MatchChunk(name, sc) ==
    IF sc.star /\ sc.chunk = <<>>
    THEN [matched |-> \A i \in DOMAIN name : name[i] # Separator, err |-> FALSE]
    ELSE MatchTry(name, sc, matchChunk(sc.chunk, name))

Match(pattern, name) ==
    IF pattern = <<>> THEN [matched |-> name = <<>>, err |-> FALSE]
    ELSE MatchChunk(name, scanChunk(pattern))

(***************************************************************************)
(* regexp.MatchString, as findMatch calls it for method regex, for the     *)
(* patterns of the model: literal characters, '.', the anchors '^' and '$' *)
(* and the repetition operators '*', '+' and '?' after a character or '.'. *)
(* A repetition operator with nothing to repeat, or one that follows '*',  *)
(* '+' or a second operator, is the syntax error of regexp/syntax.  Other  *)
(* operators of the syntax are not patterns of the model.                  *)
(***************************************************************************)
IsRepeat(c) == c \in {"*", "+", "?"}

RegexpLiteral(c) == c \notin {"*", "+", "?", ".", "^", "$", "[", "]", "\\"}

\* The pattern as a sequence of items [kind, c, rep]; err for a syntax error.
RECURSIVE RegexpParse(_, _)
RegexpParse(p, items) ==
    IF p = <<>> THEN [err |-> FALSE, items |-> items]
    ELSE CASE IsRepeat(p[1]) ->
                  \* missing argument to repetition operator
                  [err |-> TRUE, items |-> <<>>]
           [] p[1] = "^" ->
                  RegexpParse(Tail(p), Append(items, [kind |-> "bol", c |-> "", rep |-> ""]))
           [] p[1] = "$" ->
                  RegexpParse(Tail(p), Append(items, [kind |-> "eol", c |-> "", rep |-> ""]))
           [] p[1] = "." \/ RegexpLiteral(p[1]) ->
                  LET kind == IF p[1] = "." THEN "any" ELSE "lit"
                      t == Tail(p)
                  IN  IF t # <<>> /\ IsRepeat(t[1])
                      THEN IF Tail(t) # <<>> /\ IsRepeat(Tail(t)[1])
                                /\ ~(Tail(t)[1] = "?")
                           THEN \* invalid nested repetition operator
                                [err |-> TRUE, items |-> <<>>]
                           ELSE IF Tail(t) # <<>> /\ Tail(t)[1] = "?"
                           THEN \* the non-greedy form: the same set of matches
                                IF Tail(Tail(t)) # <<>> /\ IsRepeat(Tail(Tail(t))[1])
                                THEN [err |-> TRUE, items |-> <<>>]
                                ELSE RegexpParse(Tail(Tail(t)),
                                         Append(items, [kind |-> kind, c |-> p[1], rep |-> t[1]]))
                           ELSE RegexpParse(Tail(t),
                                    Append(items, [kind |-> kind, c |-> p[1], rep |-> t[1]]))
                      ELSE RegexpParse(t, Append(items, [kind |-> kind, c |-> p[1], rep |-> ""]))

\* Whether items k.. match s from position pos (the characters after the
\* first pos ones).
RECURSIVE RegexpHere(_, _, _, _)
RegexpHere(items, k, s, pos) ==
    IF k > Len(items) THEN TRUE
    ELSE LET it == items[k]
             One(i) == i <= Len(s) /\ (it.kind = "any" \/ s[i] = it.c)
             Run(n) == \A i \in (pos + 1)..(pos + n) : One(i)
         IN  CASE it.kind = "bol" -> pos = 0 /\ RegexpHere(items, k + 1, s, pos)
               [] it.kind = "eol" -> pos = Len(s) /\ RegexpHere(items, k + 1, s, pos)
               [] it.rep = "" -> One(pos + 1) /\ RegexpHere(items, k + 1, s, pos + 1)
               [] it.rep = "?" ->
                      \E n \in 0..1 : Run(n) /\ RegexpHere(items, k + 1, s, pos + n)
               [] it.rep = "*" ->
                      \E n \in 0..(Len(s) - pos) :
                          Run(n) /\ RegexpHere(items, k + 1, s, pos + n)
               [] it.rep = "+" ->
                      \E n \in 1..(Len(s) - pos) :
                          Run(n) /\ RegexpHere(items, k + 1, s, pos + n)

\* regexp.MatchString(pattern, s): a match anywhere in s.
MatchParsed(re, s) ==
    IF re.err THEN [matched |-> FALSE, err |-> TRUE]
    ELSE [matched |-> \E pos \in 0..Len(s) : RegexpHere(re.items, 1, s, pos),
          err |-> FALSE]

MatchString(pattern, s) == MatchParsed(RegexpParse(pattern, <<>>), s)

(***************************************************************************)
(* net.ParseIP, net.ParseCIDR and IPNet.Contains, as findMatch calls them  *)
(* for method cidr.  An IP is its sequence of bytes, <<>> for nil.         *)
(***************************************************************************)
IsDigit(c) == InRange(c, "0", "9")
IsHex(c) == IsDigit(c) \/ InRange(c, "a", "f") \/ InRange(c, "A", "F")

DigitVal(c) == Code(c) - Code("0")
HexVal(c) ==
    IF IsDigit(c) THEN DigitVal(c)
    ELSE IF InRange(c, "a", "f") THEN Code(c) - Code("a") + 10
    ELSE Code(c) - Code("A") + 10

Zeros(n) == [i \in 1..n |-> 0]
v4InV6Prefix == Zeros(10) \o <<255, 255>>

RECURSIVE DecValue(_)
DecValue(s) == IF s = <<>> THEN 0 ELSE DecValue(Take(s, Len(s) - 1)) * 10 + DigitVal(s[Len(s)])

\* One field of parseIPv4Fields: digits only, no leading zero, at most 255.
IPv4FieldOk(f) ==
    /\ f # <<>>
    /\ \A i \in DOMAIN f : IsDigit(f[i])
    /\ Len(f) <= 3
    /\ (Len(f) > 1 => f[1] # "0")
    /\ DecValue(f) <= 255

\* The four bytes of the fields fs of a dotted quad, <<>> when they are none.
IPv4Bytes(fs) ==
    IF Len(fs) = 4 /\ \A i \in 1..4 : IPv4FieldOk(fs[i])
    THEN [i \in 1..4 |-> DecValue(fs[i])]
    ELSE <<>>

parseIPv4Fields(s) == IPv4Bytes(SplitChar(s, "."))

RECURSIVE HexRun(_)
HexRun(s) == IF s # <<>> /\ IsHex(s[1]) THEN 1 + HexRun(Tail(s)) ELSE 0

RECURSIVE HexValue(_)
HexValue(s) == IF s = <<>> THEN 0 ELSE HexValue(Take(s, Len(s) - 1)) * 16 + HexVal(s[Len(s)])

\* "If didn't parse enough, expand ellipsis" and the checks before it.
IPv6Finish(s, ip, ellipsis) ==
    IF s # <<>> THEN <<>>
    ELSE IF Len(ip) < 16
    THEN IF ellipsis < 0 THEN <<>>
         ELSE Take(ip, ellipsis) \o Zeros(16 - Len(ip)) \o Drop(ip, ellipsis)
    ELSE IF ellipsis >= 0 THEN <<>>
    ELSE ip

\* The loop "parsing hex numbers followed by colon" of parseIPv6: ip holds
\* the bytes parsed so far, ellipsis the place of "::" in them (-1: none).
\* IPv6Field is its body after the hex number (off characters of s) is read,
\* IPv6Tail the embedded IPv4 address b, IPv6Colon what follows the number
\* (s1, after ip1).
RECURSIVE IPv6Loop(_, _, _)
IPv6Tail(ip, ellipsis, b) ==
    IF (ellipsis < 0 /\ Len(ip) # 12) \/ Len(ip) + 4 > 16 \/ b = <<>> THEN <<>>
    ELSE IPv6Finish(<<>>, ip \o b, ellipsis)

IPv6Colon(s1, ip1, ellipsis) ==
    IF s1 = <<>> THEN IPv6Finish(s1, ip1, ellipsis)
    ELSE IF s1[1] # ":" \/ Len(s1) = 1 THEN <<>>
    ELSE IF s1[2] = ":"
    THEN IF ellipsis >= 0 THEN <<>>
         ELSE IF Len(s1) = 2 THEN IPv6Finish(<<>>, ip1, Len(ip1))
         ELSE IPv6Loop(Drop(s1, 2), ip1, Len(ip1))
    ELSE IPv6Loop(Tail(s1), ip1, ellipsis)

IPv6Word(acc) == <<acc \div 256, acc % 256>>

IPv6Field(s, ip, ellipsis, off) ==
    IF off > 4 \/ off = 0 THEN <<>>
    ELSE IF off < Len(s) /\ s[off + 1] = "."
    THEN IPv6Tail(ip, ellipsis, parseIPv4Fields(s))
    ELSE IPv6Colon(Drop(s, off), ip \o IPv6Word(HexValue(Take(s, off))), ellipsis)

IPv6Loop(s, ip, ellipsis) ==
    IF Len(ip) >= 16 THEN IPv6Finish(s, ip, ellipsis)
    ELSE IPv6Field(s, ip, ellipsis, HexRun(s))

parseIPv6(s) ==
    IF Len(s) >= 2 /\ s[1] = ":" /\ s[2] = ":"
    THEN IF Len(s) = 2 THEN Zeros(16) ELSE IPv6Loop(Drop(s, 2), <<>>, 0)
    ELSE IPv6Loop(s, <<>>, -1)

BadAddr == [ok |-> FALSE, is4 |-> FALSE, ip |-> <<>>]

AddrOf(is4, b) ==
    IF b = <<>> THEN BadAddr
    ELSE [ok |-> TRUE, is4 |-> is4, ip |-> IF is4 THEN v4InV6Prefix \o b ELSE b]

\* The place of the first character of s that is in set, 0 when none is.
IndexAny(s, set) ==
    IF \E i \in DOMAIN s : s[i] \in set
    THEN CHOOSE i \in DOMAIN s : s[i] \in set /\ \A j \in 1..(i - 1) : s[j] \notin set
    ELSE 0

\* netip.ParseAddr: [ok, is4, ip16]; the first '.' or ':', s[i], decides the
\* family.
ParseAddrAt(s, i) ==
    IF i = 0 THEN BadAddr
    ELSE IF s[i] = "." THEN AddrOf(TRUE, parseIPv4Fields(s))
    ELSE AddrOf(FALSE, parseIPv6(s))

ParseAddr(s) == ParseAddrAt(s, IndexAny(s, {".", ":"}))

ParseIP(s) == ParseAddr(s).ip

big == 16777215

\* dtoi: [n, i, ok], the loop from the i-th character on with n so far.
RECURSIVE DtoiLoop(_, _, _)
DtoiLoop(s, i, n) ==
    IF i < Len(s) /\ IsDigit(s[i + 1])
    THEN IF n * 10 + DigitVal(s[i + 1]) >= big
         THEN [n |-> big, i |-> i, ok |-> FALSE]
         ELSE DtoiLoop(s, i + 1, n * 10 + DigitVal(s[i + 1]))
    ELSE IF i = 0 THEN [n |-> 0, i |-> 0, ok |-> FALSE]
    ELSE [n |-> n, i |-> i, ok |-> TRUE]

dtoi(s) == DtoiLoop(s, 0, 0)

\* One byte of CIDRMask(ones, bits): the byte at index k, counted from 0.
MaskByte(ones, k) ==
    LET n == Max2(0, Min2(8, ones - 8 * k))
    IN  256 - 2 ^ (8 - n)

CIDRMask(ones, bits) == [k \in 1..(bits \div 8) |-> MaskByte(ones, k - 1)]

\* b & m for a byte m of a mask made by CIDRMask.
AndByte(b, m) == b - (b % (256 - m))

To4(ip) ==
    IF Len(ip) = 4 THEN ip
    ELSE IF Len(ip) = 16 /\ Take(ip, 12) = v4InV6Prefix THEN Drop(ip, 12)
    ELSE <<>>

\* IP.Mask after its conversions: a and m are the address and the mask.
MaskBytes(a, m) ==
    IF Len(a) # Len(m) THEN <<>>
    ELSE [i \in DOMAIN a |-> AndByte(a[i], m[i])]

MaskFor(ip, mask) ==
    IF Len(mask) = 16 /\ Len(ip) = 4 /\ Take(mask, 12) = [i \in 1..12 |-> 255]
    THEN Drop(mask, 12) ELSE mask

AddrFor(ip, m) ==
    IF Len(m) = 4 /\ Len(ip) = 16 /\ Take(ip, 12) = v4InV6Prefix
    THEN Drop(ip, 12) ELSE ip

IPMask(ip, mask) == MaskBytes(AddrFor(ip, MaskFor(ip, mask)), MaskFor(ip, mask))

BadCIDR == [ok |-> FALSE, IP |-> <<>>, Mask |-> <<>>]

NetOf(ip, m) == [ok |-> TRUE, IP |-> IPMask(ip, m), Mask |-> m]

\* net.ParseCIDR after the cut at '/': addr is the address, d what dtoi made
\* of the mask, a text of maskLen characters.
CIDROf(addr, d, maskLen, bits) ==
    IF ~addr.ok \/ ~d.ok \/ d.i # maskLen \/ d.n > bits THEN BadCIDR
    ELSE NetOf(addr.ip, CIDRMask(d.n, bits))

CIDRBits(addr, d, maskLen) == CIDROf(addr, d, maskLen, IF addr.is4 THEN 32 ELSE 128)

CIDRAt(s, i) ==
    IF i = 0 THEN BadCIDR
    ELSE CIDRBits(ParseAddr(Take(s, i - 1)), dtoi(Drop(s, i)), Len(s) - i)

\* net.ParseCIDR: the network [ok, IP, Mask].
ParseCIDR(s) == CIDRAt(s, IndexAny(s, {"/"}))

NoNetwork == [ip |-> <<>>, m |-> <<>>]

\* networkNumberAndMask, ip4 being n.IP.To4().
NumberAndMask(n, ip4, ip) ==
    IF ip4 = <<>> /\ Len(ip) # 16 THEN NoNetwork
    ELSE IF Len(n.Mask) = 4
    THEN IF Len(ip) # 4 THEN NoNetwork ELSE [ip |-> ip, m |-> n.Mask]
    ELSE IF Len(n.Mask) = 16
    THEN [ip |-> ip, m |-> IF Len(ip) = 4 THEN Drop(n.Mask, 12) ELSE n.Mask]
    ELSE NoNetwork

Shortest(ip4, ip) == IF ip4 # <<>> THEN ip4 ELSE ip

networkNumberAndMask(n) == NumberAndMask(n, To4(n.IP), Shortest(To4(n.IP), n.IP))

\* IPNet.Contains, nm being the network's number and mask.
ContainsIn(nm, ip) ==
    /\ Len(ip) = Len(nm.ip)
    /\ \A i \in DOMAIN ip : AndByte(nm.ip[i], nm.m[i]) = AndByte(ip[i], nm.m[i])

Contains(n, ip) == ContainsIn(networkNumberAndMask(n), Shortest(To4(ip), ip))

(***************************************************************************)
(* findMatch.                                                              *)
(***************************************************************************)
WarnUnknownMethod == "Warning: Unknown match method"
WarnMatchError == "Warning: Error during match"
WarnParseLine == "Warning: Could not parse line as JSON, skipping"

Outcome(matched, err) == [matched |-> matched, err |-> err, unknown |-> FALSE]

Matched(w) == Outcome(w.matched, w.err)

\* InNet without the containment test: every address is in every block.
InNetParsed(ip, ipNet) == ip # <<>> /\ ipNet.ok

\* case "cidr": ip and ipNet are what ParseIP and ParseCIDR returned.
InNet(ip, ipNet) == ip # <<>> /\ ipNet.ok /\ Contains(ipNet, ip)

\* The switch of findMatch on the values to compare: [matched, err, unknown].
SwitchMethod(method, compareValue, compareLookupValue) ==
    CASE method = "exact" -> Outcome(compareValue = compareLookupValue, FALSE)
      [] method = "wildcard" -> Matched(Match(compareLookupValue, compareValue))
      [] method = "regex" -> Matched(MatchString(compareLookupValue, compareValue))
      [] method = "cidr" ->
             Outcome(InNet(ParseIP(compareValue), ParseCIDR(compareLookupValue)),
                     FALSE)
      [] OTHER -> [matched |-> FALSE, err |-> FALSE, unknown |-> TRUE]

\* MatchRow folding the case whatever CaseSensitive says.
MatchRowFolded(value, lookupValue, m) ==
    SwitchMethod(m.Method, ToLower(value), ToLower(lookupValue))

\* The body of findMatch's loop for one row: m is the matcher, value the
\* input value, lookupValue the row's value.
MatchRow(value, lookupValue, m) ==
    SwitchMethod(m.Method,
                 IF ~m.CaseSensitive THEN ToLower(value) ELSE value,
                 IF ~m.CaseSensitive THEN ToLower(lookupValue) ELSE lookupValue)

\* The loop of findMatch from row i on: [row, warns], row the index of the
\* row returned (0 for nil), warns what the call has logged.  FindStep is
\* what the loop does with the outcome r of row i.
RECURSIVE FindLoop(_, _, _, _, _)

\* FindStep giving up the scan at the first row whose pattern is malformed.
FindStepAbort(value, data, m, i, warns, r) ==
    IF r.unknown THEN [row |-> 0, warns |-> Append(warns, WarnUnknownMethod)]
    ELSE IF r.err THEN [row |-> 0, warns |-> Append(warns, WarnMatchError)]
    ELSE IF r.matched THEN [row |-> i, warns |-> warns]
    ELSE FindLoop(value, data, m, i + 1, warns)

FindStep(value, data, m, i, warns, r) ==
    IF r.unknown THEN [row |-> 0, warns |-> Append(warns, WarnUnknownMethod)]
    ELSE IF r.err
    THEN FindLoop(value, data, m, i + 1, Append(warns, WarnMatchError))
    ELSE IF r.matched THEN [row |-> i, warns |-> warns]
    ELSE FindLoop(value, data, m, i + 1, warns)

FindLoop(value, data, m, i, warns) ==
    IF i > Len(data) THEN [row |-> 0, warns |-> warns]
    ELSE IF m.LookupField \notin DOMAIN data[i]
    THEN FindLoop(value, data, m, i + 1, warns)
    ELSE FindStep(value, data, m, i, warns,
                  MatchRow(value, data[i][m.LookupField], m))

findMatch(value, data, m) == FindLoop(value, data, m, 1, <<>>)

(***************************************************************************)
(* performDnsLookup.  What the resolver answers is the environment's: ans  *)
(* is [err, list], the error and the names or addresses it returned.       *)
(***************************************************************************)
NilMap == [isNil |-> TRUE, f |-> <<>>]
Obj(f) == [isNil |-> FALSE, f |-> f]

kHostname == <<"h", "o", "s", "t", "n", "a", "m", "e">>
kIp == <<"i", "p">>

TrimSuffix(s, suffix) ==
    IF Len(s) >= Len(suffix) /\ Drop(s, Len(s) - Len(suffix)) = suffix
    THEN Take(s, Len(s) - Len(suffix))
    ELSE s

\* DnsQuery asking for the addresses of every value.
DnsQueryForward(value) == "forward"

\* The resolution performDnsLookup asks for: LookupAddr ("reverse") when
\* net.ParseIP(value) != nil, LookupHost ("forward") otherwise.
DnsQuery(value) == IF ParseIP(value) # <<>> THEN "reverse" ELSE "forward"

dnsPort == <<":", "5", "3">>

\* addr of the resolver's Dial: the address it dials, when it dials.
DialAddr(serverAddr) ==
    IF \E i \in DOMAIN serverAddr : serverAddr[i] = ":" THEN serverAddr
    ELSE serverAddr \o dnsPort

\* The answer of the resolver to the one call made: [err, list].
NoAnswer == [err |-> TRUE, list |-> <<>>]

\* performDnsLookup returning an empty address where it returns nil.
performDnsLookupBlank(value, serverAddr, ans) ==
    IF ~ans.err /\ Len(ans.list) > 0
    THEN IF DnsQuery(value) = "reverse"
         THEN Obj([k \in {kHostname} |-> TrimSuffix(ans.list[1], <<".">>)])
         ELSE Obj([k \in {kIp} |-> ans.list[1]])
    ELSE Obj([k \in {kIp} |-> <<>>])

performDnsLookup(value, serverAddr, ans) ==
    IF DnsQuery(value) = "reverse"
    THEN IF ~ans.err /\ Len(ans.list) > 0
         THEN Obj([k \in {kHostname} |-> TrimSuffix(ans.list[1], <<".">>)])
         ELSE NilMap
    ELSE IF ~ans.err /\ Len(ans.list) > 0
         THEN Obj([k \in {kIp} |-> ans.list[1]])
         ELSE NilMap

(***************************************************************************)
(* processObject.                                                          *)
(***************************************************************************)
Str(s) == [t |-> "string", s |-> s]

\* The orders in which a range loop may visit the keys of a map.
Orders(S) ==
    {o \in [1..Cardinality(S) -> S] : \A i, j \in 1..Cardinality(S) : o[i] = o[j] => i = j}

NoLookup == [lookup |-> "none", value |-> <<>>, result |-> NilMap, row |-> 0,
             warns |-> <<>>, query |-> "none", dial |-> <<>>, ans |-> NoAnswer]

\* InputValue without the type assertion: any value present is looked up.
InputValueAny(data, mp) ==
    IF data.isNil \/ mp.InputField \notin DOMAIN data.f THEN [ok |-> FALSE, s |-> <<>>]
    ELSE [ok |-> TRUE, s |-> data.f[mp.InputField].s]

\* inputValueStr, ok |-> FALSE at the early returns of processObject.
InputValue(data, mp) ==
    IF data.isNil \/ mp.InputField \notin DOMAIN data.f THEN [ok |-> FALSE, s |-> <<>>]
    ELSE IF data.f[mp.InputField].t # "string" THEN [ok |-> FALSE, s |-> <<>>]
    ELSE [ok |-> TRUE, s |-> data.f[mp.InputField].s]

\* lookupResult of the table: fm is what findMatch returned.
TableLookup(value, table, fm) ==
    [lookup |-> "table", value |-> value,
     result |-> IF fm.row = 0 THEN NilMap ELSE Obj(table[fm.row]),
     row |-> fm.row, warns |-> fm.warns,
     query |-> "none", dial |-> <<>>, ans |-> NoAnswer]

\* The call of performDnsLookup: the resolution asked for, the address
\* dialled for it with --dns-server, the resolver's answer and the result.
DnsLookup(value, serverAddr, ans) ==
    [lookup |-> "dns", value |-> value,
     result |-> performDnsLookup(value, serverAddr, ans),
     row |-> 0, warns |-> <<>>,
     query |-> DnsQuery(value),
     dial |-> IF serverAddr # <<>> THEN DialAddr(serverAddr) ELSE <<>>,
     ans |-> ans]

\* LookupValue calling findMatch with --dns too.
LookupValueTable(iv, table, m, ans) ==
    IF ~iv.ok THEN NoLookup
    ELSE TableLookup(iv.s, table, findMatch(iv.s, table, m))

LookupValue(iv, table, m, ans) ==
    IF ~iv.ok THEN NoLookup
    ELSE IF isDnsLookup
    THEN DnsLookup(iv.s, dnsServerAddr, ans)
    ELSE TableLookup(iv.s, table, findMatch(iv.s, table, m))

\* The lookup of processObject: what was looked up and what came back.
\*   lookup  "none" (the early returns), "dns" or "table"
\*   result  lookupResult;  row  the index of the row findMatch returned
LookupOf(data, mp, table, m, ans) == LookupValue(InputValue(data, mp), table, m, ans)

\* OutputKey without the filter: a key the output map lacks is kept under
\* its own name.
OutputKeyUnfiltered(mp, originalKey) ==
    IF originalKey \in DOMAIN mp.OutputMap
    THEN [exists |-> TRUE, newKey |-> mp.OutputMap[originalKey]]
    ELSE [exists |-> TRUE, newKey |-> originalKey]

\* mapping.OutputMap[originalKey] and the default of an empty output map:
\* [exists, newKey].
OutputKey(mp, originalKey) ==
    IF originalKey \in DOMAIN mp.OutputMap
    THEN [exists |-> TRUE, newKey |-> mp.OutputMap[originalKey]]
    ELSE IF Cardinality(DOMAIN mp.OutputMap) = 0
    THEN [exists |-> TRUE, newKey |-> originalKey]
    ELSE [exists |-> FALSE, newKey |-> <<>>]

\* data[newKey] = value, when the key exists.
WriteKey(f, key, value) ==
    IF key.exists THEN MapPut(f, key.newKey, Str(value)) ELSE f

\* The loop over lookupResult, its keys visited in the order ord, from the
\* i-th on: the fields of the record afterwards.
RECURSIVE WriteLoop(_, _, _, _, _)
WriteLoop(f, mp, result, ord, i) ==
    IF i > Len(ord) THEN f
    ELSE WriteLoop(WriteKey(f, OutputKey(mp, ord[i]), result[ord[i]]),
                   mp, result, ord, i + 1)

\* processObject after the lookup lk: the call and what it returned.
Enriched(data, mp, lk, ord) ==
    [called |-> TRUE, in |-> data, lookup |-> lk.lookup, value |-> lk.value,
     result |-> lk.result, row |-> lk.row, warns |-> lk.warns,
     query |-> lk.query, dial |-> lk.dial, ans |-> lk.ans,
     out |-> IF lk.result.isNil THEN data
             ELSE Obj(WriteLoop(data.f, mp, lk.result.f, ord, 1))]

\* processObject(data, mapping, lookupData, matcher), with the resolver's
\* answer and the order of the range loop.
processObject(data, mp, table, m, ans, ord) ==
    Enriched(data, mp, LookupOf(data, mp, table, m, ans), ord)

NoCall == [called |-> FALSE, in |-> NilMap, lookup |-> "none", value |-> <<>>,
           result |-> NilMap, row |-> 0, warns |-> <<>>,
           query |-> "none", dial |-> <<>>, ans |-> NoAnswer, out |-> NilMap]

(***************************************************************************)
(* The run: main, then processInput.                                       *)
(*                                                                         *)
(* The configuration file and a JSON data source are read without error   *)
(* (the model starts from their contents), a CSV data source is cut into   *)
(* its records without error, and -c is given whenever --dns is not.       *)
(*                                                                         *)
(* stdin is [lines, doc]: lines are the lines bufio.Scanner cuts the input *)
(* into, each with its first byte that is no whitespace ("" for a blank    *)
(* line) and what json.Unmarshal makes of it:                              *)
(*   "blank"      only whitespace                                          *)
(*   "object"     a JSON object, obj                                       *)
(*   "null"       the literal null: no error, the map stays nil            *)
(*   "nonobject"  any other JSON value: an UnmarshalTypeError              *)
(*   "invalid"    no JSON: a SyntaxError                                   *)
(*   "toolong"    longer than bufio.MaxScanTokenSize: Scan stops           *)
(* doc is what json.Unmarshal makes of the whole input as                  *)
(* []map[string]interface{}: an error, or the elements (a null element is  *)
(* the nil map).                                                           *)
(***************************************************************************)
FatalMapping == "Error parsing mapping rule"
FatalFlagM == "Error: -m (mapping) flag is required."
FatalNoMatcher == "Error: No matcher found in config"
FatalDataSource == "Error loading data source"
FatalArray == "Error parsing JSON array"
FatalScan == "Error scanning input"

\* loadConfig: an absent method is exact.
loadConfig(cfg) ==
    [i \in DOMAIN cfg |-> IF cfg[i].Method = "" THEN [cfg[i] EXCEPT !.Method = "exact"]
                          ELSE cfg[i]]

\* SelectMatcher comparing the input field only.
SelectMatcherByInput(cfg, mp) ==
    IF \E i \in DOMAIN cfg : cfg[i].InputField = mp.InputField
    THEN CHOOSE i \in DOMAIN cfg :
             /\ cfg[i].InputField = mp.InputField
             /\ \A j \in 1..(i - 1) : cfg[j].InputField # mp.InputField
    ELSE 0

\* main's search for the matcher: its index in the configuration, 0 for nil.
SelectMatcher(cfg, mp) ==
    LET Fits(i) == cfg[i].InputField = mp.InputField
                   /\ cfg[i].LookupField = mp.LookupField
    IN  IF \E i \in DOMAIN cfg : Fits(i)
        THEN CHOOSE i \in DOMAIN cfg : Fits(i) /\ \A j \in 1..(i - 1) : ~Fits(j)
        ELSE 0

NilMatcher == [InputField |-> <<>>, LookupField |-> <<>>, Method |-> "",
               CaseSensitive |-> FALSE]

\* *matcher
TheMatcher == IF matcher = 0 THEN NilMatcher ELSE loadConfig(config)[matcher]

NoData == [err |-> TRUE, data |-> <<>>]

\* The last field of the record whose header is the column k.
CsvValue(header, record, k) ==
    record[CHOOSE i \in DOMAIN record :
               /\ i <= Len(header) /\ header[i] = k
               /\ \A j \in DOMAIN record : j <= Len(header) /\ header[j] = k => j <= i]

\* row of loadLookupDataFromCSV: row[header[i]] = value for i < len(header).
CsvRow(header, record) ==
    [k \in {header[i] : i \in 1..Min2(Len(header), Len(record))} |->
        CsvValue(header, record, k)]

\* csv.Reader.Read with FieldsPerRecord 0, as csv.NewReader leaves it: the
\* first record sets the number of fields, and a record of another number
\* is returned with ErrFieldCount.
CsvFieldCount(header, record) == Len(record) = Len(header)

\* The loop of loadLookupDataFromCSV over the records after the header.
RECURSIVE CsvLoop(_, _, _)
CsvLoop(records, i, data) ==
    IF i > Len(records) THEN [err |-> FALSE, data |-> data]
    ELSE IF ~CsvFieldCount(records[1], records[i]) THEN NoData
    ELSE CsvLoop(records, i + 1, Append(data, CsvRow(records[1], records[i])))

\* loadLookupDataFromCSV on the records of the file (reader.Read returns
\* io.EOF for the header of a file without record).
loadLookupDataFromCSV(records) ==
    IF records = <<>> THEN NoData ELSE CsvLoop(records, 2, <<>>)

\* main's switch on the extension of the data source.  The rows of a JSON
\* file are read without error.
LoadData(ext, source) ==
    CASE ext = ".csv" -> loadLookupDataFromCSV(source)
      [] ext \in {".json", ".jsonl"} -> [err |-> FALSE, data |-> source]
      [] OTHER -> NoData

Fatal(msg) ==
    /\ stderr' = Append(stderr, msg)
    /\ exit' = "fatal"
    /\ pc' = "exit"

\* main after parseMapping: mp is the mapping, sel the matcher selected, ld
\* the data source loaded.
MainWith(mp, sel, ld) ==
    IF mappingStr = <<>>
    THEN Fatal(FatalFlagM) /\ UNCHANGED <<mapping, matcher, lookupData>>
    ELSE IF mp.err
    THEN Fatal(FatalMapping) /\ UNCHANGED <<mapping, matcher, lookupData>>
    ELSE IF ~isDnsLookup /\ sel = 0
    THEN /\ Fatal(FatalNoMatcher)
         /\ mapping' = mp
         /\ UNCHANGED <<matcher, lookupData>>
    ELSE IF ~isDnsLookup /\ ld.err
    THEN /\ Fatal(FatalDataSource)
         /\ mapping' = mp
         /\ matcher' = sel
         /\ UNCHANGED lookupData
    ELSE /\ mapping' = mp
         /\ matcher' = IF isDnsLookup THEN 0 ELSE sel
         /\ lookupData' = IF isDnsLookup THEN <<>> ELSE ld.data
         /\ pc' = "processInput"
         /\ UNCHANGED <<stderr, exit>>

\* main up to the call of processInput.
Main ==
    /\ pc = "main"
    /\ MainWith(parseMapping(mappingStr),
                SelectMatcher(loadConfig(config), parseMapping(mappingStr)),
                LoadData(dataExt, dataSource))
    /\ UNCHANGED <<inputs, mode, dataArray, resultsArray, idx, stdout, last>>

NonBlank == {i \in DOMAIN stdin.lines : stdin.lines[i].kind # "blank"}

\* FirstByte without TrimSpace: the first byte of the first line.
FirstByteUntrimmed == IF stdin.lines = <<>> THEN "" ELSE stdin.lines[1].first

\* trimmedInput[0], "" when trimmedInput is empty.
FirstByte ==
    IF NonBlank = {} THEN ""
    ELSE stdin.lines[CHOOSE i \in NonBlank : \A j \in NonBlank : i <= j].first

NilSlice == [isNil |-> TRUE, elems |-> <<>>]

\* append(slice, x)
AppendSlice(slice, x) == [isNil |-> FALSE, elems |-> Append(slice.elems, x)]

\* ProcessInputEmpty printing the empty results as an array.
ProcessInputEmptyPrinted ==
    /\ pc = "processInput"
    /\ FirstByte = ""
    /\ stdout' = Append(stdout, [fmt |-> "indent", src |-> 0, v |-> NilSlice])
    /\ pc' = "exit"
    /\ exit' = "ok"
    /\ UNCHANGED <<inputs, mapping, matcher, lookupData, mode, dataArray,
                   resultsArray, idx, stderr, last>>

\* processInput, the input empty after TrimSpace.
ProcessInputEmpty ==
    /\ pc = "processInput"
    /\ FirstByte = ""
    /\ pc' = "exit"
    /\ exit' = "ok"
    /\ UNCHANGED <<inputs, mapping, matcher, lookupData, mode, dataArray,
                   resultsArray, idx, stdout, stderr, last>>

\* processInput, the branch of a JSON array up to its loop.
ProcessInputArray ==
    /\ pc = "processInput"
    /\ FirstByte = "["
    /\ mode' = "array"
    /\ IF stdin.doc.err
       THEN Fatal(FatalArray) /\ UNCHANGED <<dataArray, resultsArray, idx>>
       ELSE /\ dataArray' = stdin.doc.elems
            /\ resultsArray' = NilSlice
            /\ idx' = 1
            /\ pc' = "array"
            /\ UNCHANGED <<stderr, exit>>
    /\ UNCHANGED <<inputs, mapping, matcher, lookupData, stdout, last>>

\* processInput, the branch of JSON lines up to its loop.
ProcessInputLines ==
    /\ pc = "processInput"
    /\ FirstByte \notin {"", "["}
    /\ mode' = "line"
    /\ idx' = 1
    /\ pc' = "line"
    /\ UNCHANGED <<inputs, mapping, matcher, lookupData, dataArray, resultsArray,
                   stdout, stderr, exit, last>>

\* What the resolver may answer.
DnsNames == {<<"h", ".">>, <<"g">>, <<"h", ".", ".">>}
DnsAddrs == {<<"1", ".", "2", ".", "3", ".", "4">>}

Answers(data) ==
    IF isDnsLookup /\ InputValue(data, mapping).ok
    THEN {NoAnswer, [err |-> FALSE, list |-> <<>>]}
         \cup {[err |-> FALSE, list |-> <<a, b>>] :
                   a \in (IF DnsQuery(InputValue(data, mapping).s) = "reverse"
                          THEN DnsNames ELSE DnsAddrs),
                   b \in DnsNames}
    ELSE {NoAnswer}

\* The keys of lookupResult.
ResultKeys(data, ans) ==
    DOMAIN LookupOf(data, mapping, lookupData, TheMatcher, ans).result.f

\* One call of processObject on data: every answer of the resolver and
\* every order of the range loop.
Calls(data) ==
    UNION {
        {processObject(data, mapping, lookupData, TheMatcher, ans, ord) :
             ord \in Orders(ResultKeys(data, ans))}
        : ans \in Answers(data)}

\* One iteration of the loop over dataArray.
ArrayElement ==
    /\ pc = "array"
    /\ idx <= Len(dataArray)
    /\ \E call \in Calls(dataArray[idx]) :
           /\ resultsArray' = AppendSlice(resultsArray, call.out)
           /\ stderr' = stderr \o call.warns
           /\ last' = call
    /\ idx' = idx + 1
    /\ UNCHANGED <<inputs, pc, mapping, matcher, lookupData, mode, dataArray,
                   stdout, exit>>

\* After the loop: json.MarshalIndent(resultsArray) and fmt.Println.
ArrayPrint ==
    /\ pc = "array"
    /\ idx > Len(dataArray)
    /\ stdout' = Append(stdout, [fmt |-> "indent", src |-> 0, v |-> resultsArray])
    /\ pc' = "exit"
    /\ exit' = "ok"
    /\ UNCHANGED <<inputs, mapping, matcher, lookupData, mode, dataArray,
                   resultsArray, idx, stderr, last>>

\* scanner.Scan() returns false at the end of the input: scanner.Err() is nil.
LineEnd ==
    /\ pc = "line"
    /\ idx > Len(stdin.lines)
    /\ pc' = "exit"
    /\ exit' = "ok"
    /\ UNCHANGED <<inputs, mapping, matcher, lookupData, mode, dataArray,
                   resultsArray, idx, stdout, stderr, last>>

\* LineTooLong with the output held back until the end of the input: the
\* lines printed so far are lost.
LineTooLongBuffered ==
    /\ pc = "line"
    /\ idx <= Len(stdin.lines)
    /\ stdin.lines[idx].kind = "toolong"
    /\ Fatal(FatalScan)
    /\ stdout' = <<>>
    /\ UNCHANGED <<inputs, mapping, matcher, lookupData, mode, dataArray,
                   resultsArray, idx, last>>

\* scanner.Scan() returns false at a line too long: scanner.Err() is not nil.
LineTooLong ==
    /\ pc = "line"
    /\ idx <= Len(stdin.lines)
    /\ stdin.lines[idx].kind = "toolong"
    /\ Fatal(FatalScan)
    /\ UNCHANGED <<inputs, mapping, matcher, lookupData, mode, dataArray,
                   resultsArray, idx, stdout, last>>

\* One iteration of the loop over the lines: a blank line.
LineBlank ==
    /\ pc = "line"
    /\ idx <= Len(stdin.lines)
    /\ stdin.lines[idx].kind = "blank"
    /\ idx' = idx + 1
    /\ UNCHANGED <<inputs, pc, mapping, matcher, lookupData, mode, dataArray,
                   resultsArray, stdout, stderr, exit, last>>

\* One iteration of the loop over the lines: json.Unmarshal fails.
LineSkip ==
    /\ pc = "line"
    /\ idx <= Len(stdin.lines)
    /\ stdin.lines[idx].kind \in {"invalid", "nonobject"}
    /\ stderr' = Append(stderr, WarnParseLine)
    /\ idx' = idx + 1
    /\ UNCHANGED <<inputs, pc, mapping, matcher, lookupData, mode, dataArray,
                   resultsArray, stdout, exit, last>>

\* LineObject taking the row findMatch returned out of the table.
LineObjectConsuming ==
    /\ pc = "line"
    /\ idx <= Len(stdin.lines)
    /\ stdin.lines[idx].kind \in {"object", "null"}
    /\ \E call \in Calls(stdin.lines[idx].obj) :
           /\ stdout' = Append(stdout, [fmt |-> "compact", src |-> idx, v |-> call.out])
           /\ stderr' = stderr \o call.warns
           /\ last' = call
           /\ lookupData' = IF call.row = 0 THEN lookupData
                             ELSE SubSeq(lookupData, 1, call.row - 1)
                                  \o SubSeq(lookupData, call.row + 1, Len(lookupData))
    /\ idx' = idx + 1
    /\ UNCHANGED <<inputs, pc, mapping, matcher, mode, dataArray, resultsArray, exit>>

\* One iteration of the loop over the lines: processObject and printJSON.
LineObject ==
    /\ pc = "line"
    /\ idx <= Len(stdin.lines)
    /\ stdin.lines[idx].kind \in {"object", "null"}
    /\ \E call \in Calls(stdin.lines[idx].obj) :
           /\ stdout' = Append(stdout, [fmt |-> "compact", src |-> idx, v |-> call.out])
           /\ stderr' = stderr \o call.warns
           /\ last' = call
    /\ idx' = idx + 1
    /\ UNCHANGED <<inputs, pc, mapping, matcher, lookupData, mode, dataArray,
                   resultsArray, exit>>

Next ==
    \/ Main
    \/ ProcessInputEmpty
    \/ ProcessInputArray
    \/ ProcessInputLines
    \/ ArrayElement
    \/ ArrayPrint
    \/ LineEnd
    \/ LineTooLong
    \/ LineBlank
    \/ LineSkip
    \/ LineObject

(***************************************************************************)
(* The runs of the model: the flags, the configuration, the data source    *)
(* and the input are drawn from the families below.                        *)
(***************************************************************************)
fU == <<"u">>
fN == <<"n">>
fR == <<"r">>
fD == <<"d">>
fX == <<"x">>

\* The sequences of at most n elements of S.
SeqsUpTo(S, n) == UNION {[1..k -> S] : k \in 0..n}

MatcherOn(method, cs) ==
    [InputField |-> fU, LookupField |-> fN, Method |-> method, CaseSensitive |-> cs]

\* A row with lookup value nv and a column r that tells the rows apart.
Row(nv, rv) == (fN :> nv) @@ (fR :> rv)

ExactRows == {Row(<<"j", "d">>, <<"1">>), Row(<<"J", "D">>, <<"2">>),
              Row(<<"j", "d">>, <<"3">>) @@ (fD :> <<"4">>), (fR :> <<"5">>)}
ExactValues == {<<"j", "d">>, <<"J", "D">>, <<"J", "x">>}

WildcardRows == {Row(<<"j", "*">>, <<"1">>), Row(<<"[", "a">>, <<"2">>),
                 Row(<<"[", "a", "-", "j", "]", "?">>, <<"3">>), (fR :> <<"5">>)}
WildcardValues == {<<"j", "d">>, <<"J", "D">>, <<"a", "d">>}

RegexRows == {Row(<<"^", "j", ".", "+">>, <<"1">>), Row(<<"D", "$">>, <<"2">>),
              Row(<<"*", "j">>, <<"3">>), (fR :> <<"5">>)}
RegexValues == {<<"j", "d">>, <<"J", "D">>, <<"a", "j">>}

CidrRows == {Row(<<"1", "0", ".", "0", ".", "0", ".", "0", "/", "8">>, <<"1">>),
             Row(<<"F", "E", "8", "0", ":", ":", "/", "1", "0">>, <<"2">>),
             Row(<<"1", "0", ".", "0", ".", "0", ".", "0", "/", "3", "3">>, <<"3">>),
             (fR :> <<"5">>)}
CidrValues == {<<"1", "0", ".", "1", ".", "2", ".", "3">>,
               <<"1", "1", ".", "1", ".", "2", ".", "3">>,
               <<"F", "E", "8", "0", ":", ":", "A">>, <<"j", "d">>}

\* The tables of a method that findMatch does not know.
UnknownRows == {Row(<<"j", "d">>, <<"1">>), (fR :> <<"5">>)}

RowsOf(method) ==
    CASE method = "exact" -> ExactRows
      [] method = "wildcard" -> WildcardRows
      [] method = "regex" -> RegexRows
      [] method = "cidr" -> CidrRows
      [] OTHER -> UnknownRows

ValuesOf(method) ==
    CASE method = "wildcard" -> WildcardValues
      [] method = "regex" -> RegexValues
      [] method = "cidr" -> CidrValues
      [] OTHER -> ExactValues

Methods == {"exact", "wildcard", "regex", "cidr", "fuzzy"}

\* Lines of the input.
NoObj == NilMap
LBlank == [first |-> "", kind |-> "blank", obj |-> NoObj]
LInvalid == [first |-> "{", kind |-> "invalid", obj |-> NoObj]
LArray == [first |-> "[", kind |-> "nonobject", obj |-> NoObj]
LNull == [first |-> "n", kind |-> "null", obj |-> NilMap]
LTooLong == [first |-> "{", kind |-> "toolong", obj |-> NoObj]
LObject(o) == [first |-> "{", kind |-> "object", obj |-> o]

NoDoc == [err |-> TRUE, why |-> "syntax", elems |-> <<>>]
DocOf(elems) == [err |-> FALSE, why |-> "", elems |-> elems]

\* The input of one JSON object per line.
LinesOf(objs) == [lines |-> [i \in DOMAIN objs |-> LObject(objs[i])], doc |-> NoDoc]
\* The input of one JSON array.
ArrayOf(doc) == [lines |-> <<LArray>>, doc |-> doc]

\* Records.
RecU(v) == Obj(fU :> Str(v))
Other(t) == [t |-> t, s |-> <<>>]
NonStringTypes == {"number", "bool", "null", "array", "object"}

\* Family 1: the matcher engine.  Every method with every table of at most
\* MaxRows rows of its pool and every value of its pool.
InitMatch ==
    \E method \in Methods, cs \in BOOLEAN :
    \E table \in SeqsUpTo(RowsOf(method), MaxRows), v \in ValuesOf(method) :
        /\ mappingStr = <<"u", " ", "a", "s", " ", "n">>
        /\ isDnsLookup = FALSE
        /\ dnsServerAddr = <<>>
        /\ config = <<MatcherOn(method, cs)>>
        /\ dataSource = table
        /\ stdin = LinesOf(<<RecU(v)>>)

\* Family 2: enrichment.  Mapping rules, records and configurations.
Rules == {<<"u", " ", "a", "s", " ", "n">>,
          <<"u", " ", "a", "s", " ", "n", " ", "O", "U", "T", "P", "U", "T", " ", "r", " ", "a", "s", " ", "x", ",", " ", "d">>,
          <<"u", " ", "a", "s", " ", "n", " ", "O", "U", "T", "P", "U", "T", " ", "r", " ", "a", "s", " ", "x", ",", " ", "d", " ", "a", "s", " ", "x">>,
          <<"u", " ", "a", "s", " ", "n", " ", "O", "U", "T", "P", "U", "T", " ", "r", " ", "a", "s", " ", "u">>,
          <<"u", " ", "a", "s", " ", "n", " ", "O", "U", "T", "P", "U", "T", " ", "z">>,
          <<"u", " ", "a", "s", " ", "n", " ", "O", "U", "T", "P", "U", "T", " ", ",">>,
          <<"u", " ", "a", "s", " ", "n", " ", "O", "U", "T", "P", "U", "T", " ">>,
          <<"u", " ", " ", "a", "s", " ", " ", "n", " ", " ", " ", "O", "U", "T", "P", "U", "T", " ", " ", " ", "d", " ", " ", "a", "s", " ", " ", "r", " ", ",", ",", " ", "r", " ", "a", "s", " ", "d">>,
          <<"u", " ", "a", "s", " ", "n", " ", "O", "U", "T", "P", "U", "T">>,
          <<"u", " ", "n">>,
          <<>>}

EnrichTables == {<<Row(<<"j", "d">>, <<"1">>) @@ (fD :> <<"4">>)>>,
                 <<Row(<<"x", "x">>, <<"2">>), Row(<<"j", "d">>, <<"3">>)>>,
                 <<>>}

EnrichRecords ==
    {RecU(<<"j", "d">>),
     Obj((fU :> Str(<<"j", "d">>)) @@ (fR :> Str(<<"o", "l", "d">>)) @@ (fX :> Other("number"))),
     Obj((fX :> Str(<<"j", "d">>)) @@ (fR :> Str(<<"o", "l", "d">>))),
     Obj(<<>>)}
    \cup {Obj((fU :> Other(t)) @@ (fR :> Str(<<"o", "l", "d">>))) : t \in NonStringTypes}

Configs == {<<MatcherOn("exact", FALSE)>>,
            <<MatcherOn("", TRUE)>>,
            <<[MatcherOn("regex", FALSE) EXCEPT !.LookupField = fR],
              MatcherOn("exact", TRUE), MatcherOn("fuzzy", TRUE)>>,
            <<[MatcherOn("exact", FALSE) EXCEPT !.InputField = fX]>>,
            <<>>}

InitEnrich ==
    \E rule \in Rules, table \in EnrichTables, rec \in EnrichRecords, cfg \in Configs :
        /\ mappingStr = rule
        /\ isDnsLookup = FALSE
        /\ dnsServerAddr = <<>>
        /\ config = cfg
        /\ dataSource = table
        /\ stdin \in {LinesOf(<<rec>>), ArrayOf(DocOf(<<rec>>))}

\* Family 3: the stream processor.  Every input of at most MaxLines lines,
\* and every array of at most MaxLines elements.
StreamRecords == {RecU(<<"j", "d">>), RecU(<<"x", "x">>)}

LinePool == {LBlank, LInvalid, LArray, LNull, LTooLong}
            \cup {LObject(o) : o \in StreamRecords}

ArrayDocs == {NoDoc, [err |-> TRUE, why |-> "element", elems |-> <<>>]}
             \cup {DocOf(e) : e \in SeqsUpTo(StreamRecords \cup {NilMap}, MaxLines)}

\* The first line that is not blank decides whether doc is read.
StartsArray(lines) ==
    \E i \in DOMAIN lines :
        /\ lines[i].first = "["
        /\ \A j \in 1..(i - 1) : lines[j].kind = "blank"

StreamInputs ==
    {[lines |-> ls, doc |-> NoDoc] :
         ls \in {l \in SeqsUpTo(LinePool, MaxLines) : ~StartsArray(l)}}
    \cup {[lines |-> pre \o <<LArray>>, doc |-> d] :
              pre \in {<<>>, <<LBlank>>}, d \in ArrayDocs}

InitStream ==
    \E in \in StreamInputs :
        /\ mappingStr = <<"u", " ", "a", "s", " ", "n", " ", "O", "U", "T", "P", "U", "T", " ", "r">>
        /\ isDnsLookup = FALSE
        /\ dnsServerAddr = <<>>
        /\ config = <<MatcherOn("exact", FALSE)>>
        /\ dataSource = <<Row(<<"j", "d">>, <<"1">>)>>
        /\ stdin = in

\* Family 4: DNS mode.
DnsRules == {<<"u", " ", "a", "s", " ", "n">>, <<"u", " ", "a", "s", " ", "n", " ", "O", "U", "T", "P", "U", "T", " ", "h", "o", "s", "t", "n", "a", "m", "e", " ", "a", "s", " ", "x", ",", " ", "i", "p">>, <<"u", " ", "a", "s", " ", "n", " ", "O", "U", "T", "P", "U", "T", " ", "r">>}
DnsServers == {<<>>, <<"8", ".", "8", ".", "8", ".", "8">>, <<"n", "s">>,
               <<"1", ".", "1", ".", "1", ".", "1", ":", "5", "3">>,
               <<":", ":", "1">>, <<"[", ":", ":", "1", "]", ":", "5", "3">>}
DnsRecords == {RecU(<<"1", "0", ".", "1", ".", "2", ".", "3">>), RecU(<<"j", "d">>), Obj(fU :> Other("number")), Obj(<<>>)}

\* The files --dns leaves unread: none, or a configuration with a matcher
\* for the rule and a table with a row for a record.
NoFiles == <<<<>>, <<>>>>
DnsFiles == <<<<MatcherOn("exact", FALSE)>>, <<Row(<<"j", "d">>, <<"1">>)>>>>

\* Every rule with the system resolver and with one server, every server
\* with the rule u as n, and the rule u as n with the files.
DnsFlags ==
    (DnsRules \X {<<>>, <<"8", ".", "8", ".", "8", ".", "8">>} \X {NoFiles})
    \cup ({<<"u", " ", "a", "s", " ", "n">>} \X DnsServers \X {NoFiles})
    \cup {<<<<"u", " ", "a", "s", " ", "n">>, <<>>, DnsFiles>>}

InitDns ==
    \E flags \in DnsFlags :
    \E recs \in SeqsUpTo(DnsRecords, MaxDnsRecords) \ {<<>>} :
        /\ mappingStr = flags[1]
        /\ isDnsLookup = TRUE
        /\ dnsServerAddr = flags[2]
        /\ config = flags[3][1]
        /\ dataSource = flags[3][2]
        /\ stdin \in {LinesOf(recs), ArrayOf(DocOf(recs))}

Init ==
    /\ InitMatch \/ InitEnrich \/ InitStream \/ InitDns
    /\ dataExt = ".json"
    /\ pc = "main"
    /\ mapping = NilMapping
    /\ matcher = 0
    /\ lookupData = <<>>
    /\ mode = "none"
    /\ dataArray = <<>>
    /\ resultsArray = NilSlice
    /\ idx = 0
    /\ stdout = <<>>
    /\ stderr = <<>>
    /\ exit = "running"
    /\ last = NoCall

Spec == Init /\ [][Next]_vars

(***************************************************************************)
(* Properties of the last call of processObject.                           *)
(***************************************************************************)
\* The last call looked the table up, and findMatch returned a row.
TableCall == last.called /\ last.lookup = "table"
TableHit == TableCall /\ last.row # 0
MatchedRow == lookupData[last.row]

HasField(i) == TheMatcher.LookupField \in DOMAIN lookupData[i]

\* The rows before the one findMatch returned: all of them, when it
\* returned none.
Passed == 1..(IF last.row = 0 THEN Len(lookupData) ELSE last.row - 1)
FieldOf(i) == lookupData[i][TheMatcher.LookupField]

\* The rule has an OUTPUT clause: the third submatch of its pattern is not
\* empty.
HasOutputClause ==
    RuleRegexp(mappingStr).ok /\ RuleRegexp(mappingStr).g[4] # <<>>

\* The row keys the output map names, and the fields they are written to.
MappedKeys == DOMAIN MatchedRow \cap DOMAIN mapping.OutputMap
Targets == {mapping.OutputMap[k] : k \in MappedKeys}

\* Every field outside T is in the record after the call as it was before.
Untouched(T) ==
    \A k \in (DOMAIN last.in.f \cup DOMAIN last.out.f) \ T :
        /\ k \in DOMAIN last.in.f
        /\ k \in DOMAIN last.out.f
        /\ last.out.f[k] = last.in.f[k]

\* Without an OUTPUT clause every key of the row is written under its name.
KeepsAll ==
    /\ \A k \in DOMAIN MatchedRow :
           k \in DOMAIN last.out.f /\ last.out.f[k] = Str(MatchedRow[k])
    /\ Untouched(DOMAIN MatchedRow)

\* C1 as stated: after a match, a rule without OUTPUT clause writes
\* record[k] = row[k] for every key k of the row; a rule with a non-empty
\* output map writes record[output_map[k]] = row[k] for every row key k in
\* the map, and writes no other field.
C1_WritesEveryMappedKey ==
    TableHit =>
        /\ ~HasOutputClause => KeepsAll
        /\ DOMAIN mapping.OutputMap # {} =>
               /\ \A k \in MappedKeys :
                      /\ mapping.OutputMap[k] \in DOMAIN last.out.f
                      /\ last.out.f[mapping.OutputMap[k]] = Str(MatchedRow[k])
               /\ Untouched(Targets)

\* C1 amended: with a non-empty output map, every target holds row[k] for
\* one of the row keys k the map sends to it (the only one, when no two
\* keys share the target), and no other field is written.
C1_WritesEveryTarget ==
    TableHit =>
        /\ ~HasOutputClause => KeepsAll
        /\ DOMAIN mapping.OutputMap # {} =>
               /\ \A t \in Targets :
                      /\ t \in DOMAIN last.out.f
                      /\ \E k \in MappedKeys :
                             /\ mapping.OutputMap[k] = t
                             /\ last.out.f[t] = Str(MatchedRow[k])
               /\ Untouched(Targets)

\* A match under an output map that sends two row keys of different values
\* to one target, and leaves a third key out.
C1_Witness ==
    /\ TableHit
    /\ \E j, k \in MappedKeys :
           /\ mapping.OutputMap[j] = mapping.OutputMap[k]
           /\ MatchedRow[j] # MatchedRow[k]
    /\ DOMAIN MatchedRow \ DOMAIN mapping.OutputMap # {}

ExactCall == TableCall /\ TheMatcher.Method = "exact"

\* Equality of the exact method: case folded unless case_sensitive.
EqualUnder(cs, a, b) == IF cs THEN a = b ELSE ToLower(a) = ToLower(b)

IsEqualRow(i) ==
    HasField(i) /\ EqualUnder(TheMatcher.CaseSensitive, FieldOf(i), last.value)

\* C2: with method exact, findMatch returns the earliest row whose lookup
\* value equals the input (case folded unless case_sensitive), none when no
\* row is equal; "JD" matches "jd" only when case_sensitive is false.
C2_ExactReturnsFirstEqualRow ==
    ExactCall =>
        /\ last.row # 0 => IsEqualRow(last.row)
        /\ \A j \in Passed : ~IsEqualRow(j)
        /\ \A i \in DOMAIN lookupData :
               (HasField(i) /\ last.value = <<"J", "D">> /\ FieldOf(i) = <<"j", "d">>)
                   => (IsEqualRow(i) <=> ~TheMatcher.CaseSensitive)
        /\ (last.value = <<"J", "D">> /\ last.row # 0 /\ TheMatcher.CaseSensitive)
               => FieldOf(last.row) = <<"J", "D">>

\* "JD" has matched the first of two rows "jd", the case folded.
C2_Witness ==
    /\ ExactCall
    /\ last.row # 0
    /\ last.value = <<"J", "D">>
    /\ FieldOf(last.row) = <<"j", "d">>
    /\ \E j \in DOMAIN lookupData : j > last.row /\ IsEqualRow(j)
    /\ \E j \in DOMAIN lookupData : j < last.row

\* The record of the last call has no string in the input field.
NoStringInput ==
    \/ last.in.isNil
    \/ mapping.InputField \notin DOMAIN last.in.f
    \/ last.in.f[mapping.InputField].t # "string"

\* C3: a record whose input field is absent or holds no string is returned
\* unchanged, with no table lookup, no DNS resolution and no error.
C3_NonStringInputUnchanged ==
    (last.called /\ NoStringInput) =>
        /\ last.out = last.in
        /\ last.lookup = "none"
        /\ last.warns = <<>>

\* A record with a number in the input field has been through processObject.
C3_Witness ==
    /\ last.called
    /\ ~last.in.isNil
    /\ mapping.InputField \in DOMAIN last.in.f
    /\ last.in.f[mapping.InputField].t = "number"
    /\ DOMAIN last.in.f # {mapping.InputField}

(***************************************************************************)
(* Properties of the matcher engine and of the rule.                       *)
(***************************************************************************)
CidrCall == TableCall /\ TheMatcher.Method = "cidr"

\* Row i holds a block that contains the input value, by ParseIP, ParseCIDR
\* and Contains on the texts as they are.
IsCidrRow(i) ==
    /\ HasField(i)
    /\ ParseIP(last.value) # <<>>
    /\ ParseCIDR(FieldOf(i)).ok
    /\ Contains(ParseCIDR(FieldOf(i)), ParseIP(last.value))

\* The addresses and blocks of the tables of the model, block containing
\* address.
InBlock ==
    {<< <<"1", "0", ".", "1", ".", "2", ".", "3">>,
        <<"1", "0", ".", "0", ".", "0", ".", "0", "/", "8">> >>,
     << <<"F", "E", "8", "0", ":", ":", "A">>,
        <<"F", "E", "8", "0", ":", ":", "/", "1", "0">> >>}

OtherCase == [TheMatcher EXCEPT !.CaseSensitive = ~TheMatcher.CaseSensitive]

\* C6: with method cidr a row matches iff the input parses as an address,
\* the row's value parses as a block and the block contains the address; a
\* value that does not parse only makes the row no match, with no error and
\* no end of the scan; case_sensitive makes no difference.
C6_CidrMatchesContainingBlock ==
    CidrCall =>
        /\ last.row # 0 => IsCidrRow(last.row)
        /\ \A j \in Passed : ~IsCidrRow(j)
        /\ \A i \in DOMAIN lookupData :
               HasField(i) => (IsCidrRow(i) <=> <<last.value, FieldOf(i)>> \in InBlock)
        /\ last.warns = <<>>
        /\ findMatch(last.value, lookupData, OtherCase).row = last.row

\* An address in upper-case hexadecimal has matched its block after a row
\* whose block does not parse.
C6_Witness ==
    /\ CidrCall
    /\ last.row > 1
    /\ last.value = <<"F", "E", "8", "0", ":", ":", "A">>
    /\ HasField(1)
    /\ ~ParseCIDR(FieldOf(1)).ok
    /\ ~TheMatcher.CaseSensitive

\* C7 as stated: keep_all holds iff the rule has no OUTPUT clause; under an
\* OUTPUT clause that yields an empty output map a matched row adds no field
\* to the record.
C7_EmptyClauseAddsNothing ==
    (TableHit /\ HasOutputClause /\ DOMAIN mapping.OutputMap = {}) =>
        last.out = last.in

ScanCall == TableCall /\ TheMatcher.Method \in {"exact", "wildcard", "regex", "cidr"}

\* The patterns of the tables of the model that are malformed.
IsMalformed(i) ==
    /\ HasField(i)
    /\ \/ TheMatcher.Method = "wildcard" /\ FieldOf(i) = <<"[", "a">>
       \/ TheMatcher.Method = "regex" /\ FieldOf(i) = <<"*", "j">>

\* Row i can be evaluated, and matches the input value.
IsHit(i) ==
    /\ HasField(i)
    /\ ~IsMalformed(i)
    /\ MatchRow(last.value, FieldOf(i), TheMatcher).matched

\* C10: a row without the lookup field, or with a malformed wildcard or
\* regex pattern, is skipped and the scan goes on: findMatch returns the
\* first row that matches, whatever such rows precede it, and every
\* malformed pattern it has gone through logs a warning.
C10_ScanSkipsBadRows ==
    ScanCall =>
        /\ last.row # 0 => IsHit(last.row)
        /\ \A j \in Passed : ~IsHit(j)
        /\ \A i \in DOMAIN lookupData :
               HasField(i) =>
                   (MatchRow(last.value, FieldOf(i), TheMatcher).err <=> IsMalformed(i))
        /\ last.warns = [k \in 1..Cardinality({i \in Passed : IsMalformed(i)})
                             |-> WarnMatchError]

\* findMatch has returned the third row, after a malformed pattern and a
\* row without the lookup field.
C10_Witness ==
    /\ ScanCall
    /\ last.row = 3
    /\ \E i, j \in 1..2 : IsMalformed(i) /\ ~HasField(j)
    /\ last.warns = <<WarnMatchError>>

(***************************************************************************)
(* Properties of the stream processor.                                     *)
(***************************************************************************)
\* The lines of the input that hold a JSON object.
ObjectLines == {i \in DOMAIN stdin.lines : stdin.lines[i].kind = "object"}

\* C4 as stated: at the end of a run in line mode, the output holds exactly
\* one line for every input line that parses as a JSON object, in the order
\* of the input; blank lines and lines that do not parse give none and stop
\* nothing after them.
C4_OneOutputLinePerObjectLine ==
    (mode = "line" /\ pc = "exit") =>
        /\ Len(stdout) = Cardinality(ObjectLines)
        /\ \A i \in DOMAIN stdout : stdout[i].src \in ObjectLines
        /\ \A i, j \in DOMAIN stdout : i < j => stdout[i].src < stdout[j].src

\* The record is not changed by the lookup: no row matches it.
Unmatched(data) ==
    LookupOf(data, mapping, lookupData, TheMatcher, NoAnswer).result.isNil

\* The input is an array of well-formed objects none of which matches a row.
UnmatchedArray ==
    /\ ~isDnsLookup
    /\ ~stdin.doc.err
    /\ \A i \in DOMAIN stdin.doc.elems :
           ~stdin.doc.elems[i].isNil /\ Unmatched(stdin.doc.elems[i])

\* C5 as stated: in array mode, an array of N >= 0 objects none of which
\* matches a row is printed as a JSON array of the same N objects, in order.
C5_UnmatchedArrayPrintedAsArray ==
    (mode = "array" /\ pc = "exit" /\ exit = "ok" /\ UnmatchedArray) =>
        /\ Len(stdout) = 1
        /\ stdout[1].fmt = "indent"
        /\ ~stdout[1].v.isNil
        /\ stdout[1].v.elems = stdin.doc.elems

\* The first byte of the input that is no whitespace is '['.
FirstIsBracket ==
    \E i \in DOMAIN stdin.lines :
        /\ stdin.lines[i].first = "["
        /\ \A j \in 1..(i - 1) : stdin.lines[j].first = ""

InputNotEmpty == \E i \in DOMAIN stdin.lines : stdin.lines[i].first # ""

\* processInput has gone past the choice of the mode.
PastChoice == pc \in {"array", "line"} \/ (pc = "exit" /\ exit = "ok") \/ mode # "none"

\* Records have been processed in line mode: a line of output is printed.
LineResults == \E i \in DOMAIN stdout : stdout[i].fmt = "compact"

\* The mode chosen is the one the first byte asks for, and the records are
\* processed in that mode only.
ModeChosen ==
    /\ (InputNotEmpty /\ PastChoice) => mode = IF FirstIsBracket THEN "array" ELSE "line"
    /\ pc = "array" => mode = "array"
    /\ pc = "line" => mode = "line"
    /\ pc \in {"main", "processInput"} => (mode = "none" /\ ~last.called)
    /\ mode = "array" => ~LineResults
    /\ mode = "line" => resultsArray = NilSlice
    /\ ~(LineResults /\ resultsArray # NilSlice)

\* C8: for every input that is not empty, one mode is chosen, once, before
\* any record is processed: array mode iff the first byte that is no
\* whitespace is '['; the mode never changes, and no run processes records
\* in both modes.
C8_OneModeChosenOnce ==
    /\ []ModeChosen
    /\ [][mode # "none" => mode' = mode]_vars

\* An array after a blank line has had an element processed in array mode.
C8_Witness ==
    /\ mode = "array"
    /\ stdin.lines[1].kind = "blank"
    /\ resultsArray # NilSlice
    /\ last.called

\* The input parses as a JSON array of objects.
IsArrayOfObjects ==
    ~stdin.doc.err /\ \A i \in DOMAIN stdin.doc.elems : ~stdin.doc.elems[i].isNil

\* C9 as stated: in array mode, an input that does not parse as a JSON array
\* of objects (an array with one element that is no object included) ends
\* the run fatally, with no element enriched and nothing printed.
C9_BadArrayIsFatal ==
    (mode = "array" /\ ~IsArrayOfObjects) =>
        /\ pc = "exit"
        /\ exit = "fatal"
        /\ stdout = <<>>
        /\ ~last.called

(***************************************************************************)
(* Properties of a method findMatch does not know.                         *)
(***************************************************************************)
KnownMethods == {"exact", "wildcard", "regex", "cidr"}

UnknownCall == TableCall /\ TheMatcher.Method \notin KnownMethods

\* C11 as stated: with a method that is none of exact, wildcard, regex and
\* cidr, for every record with a string input field and every table (the
\* empty table and a table without the lookup field included), the lookup
\* returns no match, a warning is logged, and the record is emitted
\* unchanged.
C11_UnknownMethodWarns ==
    UnknownCall =>
        /\ last.row = 0
        /\ last.out = last.in
        /\ last.warns = <<WarnUnknownMethod>>

(***************************************************************************)
(* Properties of main.                                                     *)
(***************************************************************************)
\* The i-th matcher of the configuration has the two fields of the rule.
FitsRule(i) ==
    /\ config[i].InputField = mapping.InputField
    /\ config[i].LookupField = mapping.LookupField

\* main has parsed the rule and gone past the search for the matcher.
PastSearch == pc # "main" /\ ~mapping.err /\ ~isDnsLookup

\* C12: without --dns the active matcher is the first of the configuration
\* whose input_field and lookup_field both equal those of the rule; when
\* there is none the run ends fatally with the table not loaded, no input
\* read and nothing printed.
C12_FirstFittingMatcherOrFatal ==
    PastSearch =>
        /\ matcher \in 0..Len(config)
        /\ matcher # 0 =>
               /\ FitsRule(matcher)
               /\ \A j \in 1..(matcher - 1) : ~FitsRule(j)
        /\ matcher = 0 =>
               /\ \A j \in DOMAIN config : ~FitsRule(j)
               /\ pc = "exit"
               /\ exit = "fatal"
               /\ stderr = <<FatalNoMatcher>>
               /\ lookupData = <<>>
               /\ mode = "none"
               /\ stdout = <<>>
               /\ ~last.called

\* The run has ended for want of a matcher, with a table to load, a record
\* to read and matchers that fit one field of the rule only.
C12_Witness ==
    /\ PastSearch
    /\ matcher = 0
    /\ exit = "fatal"
    /\ config # <<>>
    /\ dataSource # <<>>
    /\ InputNotEmpty

(***************************************************************************)
(* The rule parser on its own: main on every rule string made of a head,   *)
(* a separator and at most MaxItems items joined by commas.                *)
(***************************************************************************)
MaxItems == 2

RuleHeads ==
    {<<"u", " ", "a", "s", " ", "n">>,
     <<"u", "\t", " ", "a", "s", " ", " ", "n">>,
     <<"a", "s", " ", "a", "s", " ", "a", "s">>,
     <<" ", "u", " ", "a", "s", " ", "n">>,
     <<"u", " ", "a", "s", "s", " ", "n">>,
     <<"u", " ", "A", "S", " ", "n">>,
     <<"u", " ", "a", "s">>,
     <<"u", " ", "n">>,
     <<>>}

ClauseHeads ==
    {<<" ", "O", "U", "T", "P", "U", "T", " ">>,
     <<"\t", " ", "O", "U", "T", "P", "U", "T", " ", " ">>,
     <<" ", "O", "U", "T", "P", "U", "T">>,
     <<"O", "U", "T", "P", "U", "T", " ">>,
     <<" ", "o", "u", "t", "p", "u", "t", " ">>,
     <<" ">>}

Items ==
    {<<"x">>,
     <<"x", " ", "a", "s", " ", "y">>,
     <<"y", " ", "a", "s", " ", "x">>,
     <<" ", "x", " ", " ", "a", "s", "\t", "d", " ">>,
     <<"x", " ", "a", "s">>,
     <<"a", "s", " ", "x">>,
     <<"x", " ", "a", "s", " ", "y", " ", "a", "s", " ", "d">>,
     <<"x", " ", "y">>,
     <<" ">>}

\* The items joined by commas.
RECURSIVE JoinItems(_)
JoinItems(items) ==
    IF items = <<>> THEN <<>>
    ELSE IF Len(items) = 1 THEN items[1]
    ELSE items[1] \o <<",">> \o JoinItems(Tail(items))

RuleStrings ==
    RuleHeads
    \cup {h \o c \o JoinItems(items) :
              h \in RuleHeads, c \in ClauseHeads, items \in SeqsUpTo(Items, MaxItems)}

InitParse ==
    /\ mappingStr \in RuleStrings
    /\ isDnsLookup = FALSE
    /\ dnsServerAddr = <<>>
    /\ config = <<MatcherOn("exact", FALSE)>>
    /\ dataExt = ".json"
    /\ dataSource = <<>>
    /\ stdin = LinesOf(<<>>)
    /\ pc = "main"
    /\ mapping = NilMapping
    /\ matcher = 0
    /\ lookupData = <<>>
    /\ mode = "none"
    /\ dataArray = <<>>
    /\ resultsArray = NilSlice
    /\ idx = 0
    /\ stdout = <<>>
    /\ stderr = <<>>
    /\ exit = "running"
    /\ last = NoCall

SpecParse == InitParse /\ [][Main]_vars

(***************************************************************************)
(* Properties of parseMapping.                                             *)
(***************************************************************************)
\* The words of s: its longest runs of characters that are no whitespace.
RECURSIVE Words(_)
Words(s) ==
    IF s = <<>> THEN <<>>
    ELSE IF IsSpace(s[1]) THEN Words(Drop(s, SpaceRun(s)))
    ELSE <<Take(s, WordRun(s))>> \o Words(Drop(s, WordRun(s)))

RuleWords == Words(mappingStr)

\* The rule is INPUT as LOOKUP with nothing before INPUT, followed by
\* nothing or by the word OUTPUT between whitespace and the rest.
HasRuleForm ==
    /\ mappingStr # <<>>
    /\ ~IsSpace(mappingStr[1])
    /\ Len(RuleWords) >= 3
    /\ RuleWords[2] = kwAs
    /\ Len(RuleWords) = 3 => ~IsSpace(mappingStr[Len(mappingStr)])
    /\ Len(RuleWords) >= 4 => RuleWords[4] = kwOutput
    /\ Len(RuleWords) = 4 => IsSpace(mappingStr[Len(mappingStr)])

\* main has called parseMapping.
Parsed == pc # "main"

\* C13: parseMapping returns an error and no mapping for every rule that
\* has not the form INPUT as LOOKUP followed by nothing or by an OUTPUT
\* clause, and a mapping with input field INPUT and lookup field LOOKUP for
\* every rule that has it.
C13_ErrorIffNotRuleForm ==
    Parsed =>
        /\ mapping.err <=> ~HasRuleForm
        /\ mapping.err => mapping = NilMapping /\ exit = "fatal"
        /\ ~mapping.err =>
               /\ mapping.InputField = RuleWords[1]
               /\ mapping.LookupField = RuleWords[3]

\* A rule that has the prefix and something else than an OUTPUT clause after
\* it has been refused.
C13_Witness ==
    /\ Parsed
    /\ mapping.err
    /\ Len(RuleWords) >= 4
    /\ RuleWords[2] = kwAs
    /\ ToLower(RuleWords[4]) = ToLower(kwOutput)

\* The rule has an OUTPUT clause.
HasClause == Parsed /\ ~mapping.err /\ Len(RuleWords) >= 4

\* The number of characters of s up to the end of its k-th word.
RECURSIVE WordEnd(_, _)
WordEnd(s, k) ==
    IF k = 0 THEN 0
    ELSE SpaceRun(s) + WordRun(Drop(s, SpaceRun(s)))
         + WordEnd(Drop(s, SpaceRun(s) + WordRun(Drop(s, SpaceRun(s)))), k - 1)

\* The items of the clause: what stands between the commas after the word
\* OUTPUT, without the whitespace around it.
ClausePieces == SplitChar(Drop(mappingStr, WordEnd(mappingStr, 4)), ",")
ClauseItems == [i \in DOMAIN ClausePieces |-> TrimSpace(ClausePieces[i])]
ItemIndexes == {i \in DOMAIN ClauseItems : ClauseItems[i] # <<>>}

\* The places of an item where the word as stands between whitespace.
AsPlaces(item) ==
    {p \in 2..(Len(item) - 2) :
        /\ IsSpace(item[p - 1])
        /\ item[p] = "a"
        /\ item[p + 1] = "s"
        /\ IsSpace(item[p + 2])}

FirstAsPlace(item) == CHOOSE p \in AsPlaces(item) : \A q \in AsPlaces(item) : p <= q

\* The source and the target of an item: what stands before and after its
\* first as, the item itself when it has none.
SourceOf(item) ==
    IF AsPlaces(item) = {} THEN item
    ELSE TrimSpace(Take(item, FirstAsPlace(item) - 1))

TargetOf(item) ==
    IF AsPlaces(item) = {} THEN item
    ELSE TrimSpace(Drop(item, FirstAsPlace(item) + 1))

\* The i-th item is the last one of its source.
LastOfSource(i) ==
    \A j \in ItemIndexes :
        j > i => SourceOf(ClauseItems[j]) # SourceOf(ClauseItems[i])

\* C14: the output table of a rule with an OUTPUT clause holds, for each
\* item, its source with the target of the last item of that source (the
\* source itself for an item without as), and no other entry.
C14_OutputTableOfItems ==
    HasClause =>
        /\ DOMAIN mapping.OutputMap = {SourceOf(ClauseItems[i]) : i \in ItemIndexes}
        /\ \A i \in ItemIndexes :
               LastOfSource(i) =>
                   mapping.OutputMap[SourceOf(ClauseItems[i])] = TargetOf(ClauseItems[i])

\* Two items of one source and different targets have been parsed.
C14_Witness ==
    /\ HasClause
    /\ \E i, j \in ItemIndexes :
           /\ i < j
           /\ SourceOf(ClauseItems[i]) = SourceOf(ClauseItems[j])
           /\ TargetOf(ClauseItems[i]) # TargetOf(ClauseItems[j])
           /\ AsPlaces(ClauseItems[i]) # {}

\* The rule is keep-all: its output table is empty.
KeepAllRule(mp) == DOMAIN mp.OutputMap = {}

\* The items source as target of the table, its sources in the order ord,
\* joined by a comma and a blank.
RECURSIVE CanonicalItems(_, _)
CanonicalItems(om, ord) ==
    IF ord = <<>> THEN <<>>
    ELSE ord[1] \o <<" ">> \o kwAs \o <<" ">> \o om[ord[1]]
         \o (IF Len(ord) = 1 THEN <<>> ELSE <<",", " ">> \o CanonicalItems(om, Tail(ord)))

\* The canonical form of a mapping: INPUT as LOOKUP, and the clause OUTPUT
\* with every source as target when the rule is not keep-all.
Canonical(mp, ord) ==
    mp.InputField \o <<" ">> \o kwAs \o <<" ">> \o mp.LookupField
    \o (IF KeepAllRule(mp) THEN <<>>
        ELSE <<" ">> \o kwOutput \o <<" ">> \o CanonicalItems(mp.OutputMap, ord))

\* C15 as stated: the canonical form of the mapping of a rule, its sources
\* in any order, parses to the same mapping.
C15_CanonicalFormParsesBack ==
    Parsed /\ ~mapping.err =>
        \A ord \in Orders(DOMAIN mapping.OutputMap) :
            parseMapping(Canonical(mapping, ord)) = mapping

(***************************************************************************)
(* Properties of performDnsLookup.                                         *)
(***************************************************************************)
\* The last call of processObject called performDnsLookup.
DnsCall == last.called /\ last.lookup = "dns"

\* The resolver answered the call with at least one name or address.
Resolved == ~last.ans.err /\ last.ans.list # <<>>

IsIPLiteral(value) == ParseIP(value) # <<>>

\* The name without one dot at its end.
WithoutDot(name) ==
    IF name # <<>> /\ name[Len(name)] = "." THEN Take(name, Len(name) - 1) ELSE name

\* C16: performDnsLookup asks for the names of a value that is an IP
\* literal and for the addresses of any other value; when the resolver
\* answers, the result is the one key hostname with the first name less one
\* dot at its end, or the one key ip with the first address; no result has
\* two keys.
C16_DirectionFromValue ==
    DnsCall =>
        /\ last.query = IF IsIPLiteral(last.value) THEN "reverse" ELSE "forward"
        /\ Resolved /\ IsIPLiteral(last.value) =>
               last.result = Obj(kHostname :> WithoutDot(last.ans.list[1]))
        /\ Resolved /\ ~IsIPLiteral(last.value) =>
               last.result = Obj(kIp :> last.ans.list[1])
        /\ ~last.result.isNil => Cardinality(DOMAIN last.result.f) = 1

\* A reverse resolution through a given server has returned a name that
\* ends with two dots, followed by another name.
C16_Witness ==
    /\ DnsCall
    /\ Resolved
    /\ last.query = "reverse"
    /\ dnsServerAddr # <<>>
    /\ last.ans.list[1] = <<"h", ".", ".">>
    /\ last.result = Obj(kHostname :> <<"h", ".">>)

\* The record of the last call has been passed on: printed in line mode,
\* appended to the results and printed with them in array mode.
PassedOn ==
    /\ mode = "line" =>
           stdout[Len(stdout)] = [fmt |-> "compact", src |-> idx - 1, v |-> last.out]
    /\ mode = "array" => resultsArray.elems[idx - 1] = last.out

\* The run has ended well with one record out for each record in.
AllPassedOn ==
    /\ exit = "ok"
    /\ stderr = <<>>
    /\ mode = "line" => Len(stdout) = Len(stdin.lines)
    /\ mode = "array" =>
           /\ Len(stdout) = 1
           /\ Len(stdout[1].v.elems) = Len(stdin.doc.elems)

\* C17: when the resolution fails, with an error or with an empty answer,
\* with or without a server, performDnsLookup returns no result, the record
\* is passed on unchanged, the run goes on and ends well after the records
\* that follow.
C17_DnsFailureLeavesRecord ==
    DnsCall /\ ~Resolved =>
        /\ last.result.isNil
        /\ last.out = last.in
        /\ PassedOn
        /\ exit # "fatal"
        /\ pc \in {"line", "array", "exit"}
        /\ pc = "exit" => AllPassedOn

\* The run has ended after a resolution through a given server that failed
\* without an error, on a record that was not the last.
C17_Witness ==
    /\ DnsCall
    /\ ~Resolved
    /\ ~last.ans.err
    /\ dnsServerAddr # <<>>
    /\ pc = "exit"
    /\ mode = "line"
    /\ Len(stdin.lines) = 2
    /\ stdout[1].v = stdin.lines[1].obj

\* The server string carries a port: digits after its last colon, and before
\* that colon a host without colon or a host in brackets.
LastColon(s) == CHOOSE i \in DOMAIN s : s[i] = ":" /\ \A j \in (i + 1)..Len(s) : s[j] # ":"

HostBefore(s, i) ==
    \/ \A j \in 1..(i - 1) : s[j] # ":"
    \/ i > 2 /\ s[1] = "[" /\ s[i - 1] = "]"

HasPort(s) ==
    /\ \E i \in DOMAIN s : s[i] = ":"
    /\ LastColon(s) < Len(s)
    /\ \A j \in (LastColon(s) + 1)..Len(s) : IsDigit(s[j])
    /\ HostBefore(s, LastColon(s))

\* The server string with the port 53 after it: host:53, and [host]:53 for
\* a host that holds a colon.
WithPort53(s) ==
    {s \o <<":", "5", "3">>}
    \cup (IF \E i \in DOMAIN s : s[i] = ":"
          THEN {<<"[">> \o s \o <<"]", ":", "5", "3">>} ELSE {})

\* The server given is dialled for the last call.
ServerCall == DnsCall /\ dnsServerAddr # <<>>

\* C18 as stated: with --dns-server the address dialled is the server
\* string when it carries a port, and the server string with port 53 after
\* it when it carries none, whatever the server string.
C18_DialsServerWithPort ==
    ServerCall =>
        /\ HasPort(dnsServerAddr) => last.dial = dnsServerAddr
        /\ ~HasPort(dnsServerAddr) => last.dial \in WithPort53(dnsServerAddr)

(***************************************************************************)
(* The CSV loader on its own: main on every CSV file of a header and at    *)
(* most MaxCsvRows records of one to three fields.                         *)
(***************************************************************************)
MaxCsvRows == 2

CsvHeaders == {<<fN, fR>>, <<fN>>, <<fN, fR, fD>>}

CsvRecords ==
    {<<<<"j", "d">>>>,
     <<<<"j", "d">>, <<"1">>>>,
     <<<<"x", "x">>, <<"2">>>>,
     <<<<"j", "d">>, <<"1">>, <<"4">>>>}

CsvFiles ==
    {<<>>} \cup {<<h>> \o rows : h \in CsvHeaders, rows \in SeqsUpTo(CsvRecords, MaxCsvRows)}

InitCsv ==
    /\ mappingStr = <<"u", " ", "a", "s", " ", "n">>
    /\ isDnsLookup = FALSE
    /\ dnsServerAddr = <<>>
    /\ config = <<MatcherOn("exact", FALSE)>>
    /\ \E file \in CsvFiles, ext \in {".csv", ".txt"} :
           /\ dataExt = ext
           /\ dataSource = file
    /\ stdin = LinesOf(<<>>)
    /\ pc = "main"
    /\ mapping = NilMapping
    /\ matcher = 0
    /\ lookupData = <<>>
    /\ mode = "none"
    /\ dataArray = <<>>
    /\ resultsArray = NilSlice
    /\ idx = 0
    /\ stdout = <<>>
    /\ stderr = <<>>
    /\ exit = "running"
    /\ last = NoCall

SpecCsv == InitCsv /\ [][Main]_vars

(***************************************************************************)
(* Properties of loadLookupDataFromCSV.                                    *)
(***************************************************************************)
\* main is past the loading of a CSV file that has a header.
CsvLoaded == pc # "main" /\ dataExt = ".csv" /\ dataSource # <<>>

CsvHeader == dataSource[1]
CsvRowsIn == Tail(dataSource)

\* The i-th row of the table holds the fields of the i-th record after the
\* header that have a column, and nothing else.
RowOfRecord(i) ==
    /\ DOMAIN lookupData[i]
           = {CsvHeader[j] : j \in 1..Min2(Len(CsvHeader), Len(CsvRowsIn[i]))}
    /\ \A j \in 1..Min2(Len(CsvHeader), Len(CsvRowsIn[i])) :
           lookupData[i][CsvHeader[j]] = CsvRowsIn[i][j]

\* C19 as stated: the load of a CSV file never fails for a record shorter
\* or longer than the header; every record is a row of the table at its
\* place, with the columns it has fields for and without its fields beyond
\* the header.
C19_RaggedRowsAreKept ==
    CsvLoaded =>
        /\ exit # "fatal"
        /\ Len(lookupData) = Len(CsvRowsIn)
        /\ \A i \in DOMAIN CsvRowsIn : RowOfRecord(i)

(***************************************************************************)
(* Properties of the loop over the lines.                                  *)
(***************************************************************************)
\* The lines json.Unmarshal accepts among the first n.
Accepted(n) == {j \in 1..n : stdin.lines[j].kind \in {"object", "null"}}

\* The lines printed so far are those accepted before the line idx, in
\* their order.
PrintedUpTo(out, n) ==
    /\ {out[k].src : k \in DOMAIN out} = Accepted(n - 1)
    /\ \A k \in 1..(Len(out) - 1) : out[k].src < out[k + 1].src

\* One step of the loop: it takes at most the line idx, prints what the
\* call of processObject on that line returned, and leaves alone what was
\* printed before.
LineStep ==
    pc = "line" =>
        /\ PrintedUpTo(stdout, idx)
        /\ PrintedUpTo(stdout', idx')
        /\ idx' \in {idx, idx + 1}
        /\ Len(stdout') >= Len(stdout)
        /\ SubSeq(stdout', 1, Len(stdout)) = stdout
        /\ Len(stdout') <= Len(stdout) + 1
        /\ Len(stdout') = Len(stdout) + 1 =>
               /\ idx' = idx + 1
               /\ last'.called
               /\ last'.in = stdin.lines[idx].obj
               /\ stdout'[Len(stdout')]
                      = [fmt |-> "compact", src |-> idx, v |-> last'.out]
        /\ last' # last => Len(stdout') = Len(stdout) + 1
        /\ exit' = "fatal" => idx' = idx

\* C20: in line mode the records are handled one at a time and in the
\* order of the input: the line of a record is printed in the step that
\* looks it up, before the next line is parsed, no step makes more than one
\* call of processObject, and a fatal scanning error leaves the lines
\* printed before it as they are.
C20_OneRecordAtATime == [][LineStep]_vars

\* The run has ended with a scanning error after two lines were printed.
C20_Witness ==
    /\ mode = "line"
    /\ exit = "fatal"
    /\ stderr # <<>>
    /\ stderr[Len(stderr)] = FatalScan
    /\ Len(stdout) = 2

(***************************************************************************)
(* Properties of the run across its records.                               *)
(***************************************************************************)
\* The table, the rule and the matcher as main made them from the flags
\* and the files.
TableLoaded == LoadData(dataExt, dataSource).data
RuleParsed == parseMapping(mappingStr)
MatcherFound == loadConfig(config)[SelectMatcher(loadConfig(config), RuleParsed)]

\* What processObject returns for the record data with the table, the rule
\* and the matcher of main, for the orders of its range loop over the keys.
CallsOver(data, keys) ==
    {processObject(data, RuleParsed, TableLoaded, MatcherFound, NoAnswer, ord) :
         ord \in Orders(keys)}

CallsFrom(data) ==
    CallsOver(data,
              DOMAIN LookupOf(data, RuleParsed, TableLoaded, MatcherFound, NoAnswer).result.f)

\* The table and the rule are those of main.
AsLoaded ==
    /\ lookupData = (IF isDnsLookup THEN <<>> ELSE TableLoaded)
    /\ mapping = RuleParsed

\* One step of the loops over the records: the table and the rule stay as
\* main made them, and without --dns what the call of processObject
\* returned is what it returns for that record alone.
FrameStep ==
    pc \in {"array", "line"} =>
        /\ AsLoaded
        /\ lookupData' = lookupData
        /\ mapping' = mapping
        /\ matcher' = matcher
        /\ last'.called /\ ~isDnsLookup => last' \in CallsFrom(last'.in)

\* C21: the loops over the records change neither the rows of the table
\* nor the rule, and without --dns the enriched record depends on the
\* record, the rule, the matcher and the table only, whatever records came
\* before it.
C21_RecordsLeaveTableAndRule == [][FrameStep]_vars

\* Two records running have been enriched from the same row of the table.
C21_Witness ==
    /\ ~isDnsLookup
    /\ mode = "line"
    /\ Len(stdout) = 2
    /\ stdout[1].v = stdout[2].v
    /\ stdout[2].v = last.out
    /\ last.row # 0
    /\ last.out # last.in

\* The run has come to processInput.
Processing == pc \in {"processInput", "array", "line"} \/ mode # "none" \/ last.called

\* The last call looked the table up with main's matcher: the row and the
\* warnings are those of findMatch for that matcher.
CalledWithMatcher ==
    /\ last.row = findMatch(last.value, lookupData, TheMatcher).row
    /\ last.warns = findMatch(last.value, lookupData, TheMatcher).warns

\* C22: a run that comes to its records has, without --dns, one matcher,
\* which has the two fields of the rule and with which every call of
\* findMatch is made; with --dns it has no matcher and no table, and no
\* call of findMatch is made.
C22_OneMatcherOrNone ==
    Processing =>
        /\ ~isDnsLookup =>
               /\ matcher \in DOMAIN config
               /\ FitsRule(matcher)
               /\ last.called => last.lookup \in {"none", "table"}
               /\ TableCall => CalledWithMatcher
        /\ isDnsLookup =>
               /\ matcher = 0
               /\ lookupData = <<>>
               /\ last.called => last.lookup \in {"none", "dns"} /\ last.row = 0

\* With --dns, a configuration with a matcher for the rule and a table with
\* a row for the value, a record has been resolved.
C22_Witness ==
    /\ Processing
    /\ isDnsLookup
    /\ config # <<>>
    /\ dataSource # <<>>
    /\ DnsCall
    /\ \E i \in DOMAIN dataSource : dataSource[i][fN] = last.value

\* The fields enrichment may write: the keys of the row without an OUTPUT
\* clause, the targets of the row keys the output map names with one.
WriteTargets == IF HasOutputClause THEN Targets ELSE DOMAIN MatchedRow

\* C23 as stated: after a match no field of the record is gone, and every
\* field that is no write target is as it was; no field is written for a
\* source of the output map that the row lacks.
C23_WritesTargetsOnly ==
    TableHit =>
        /\ DOMAIN last.in.f \subseteq DOMAIN last.out.f
        /\ Untouched(WriteTargets)

\* C24 as stated: after a match, the enriched record is the one
\* processObject returns for that record whatever the order of its range
\* loop over the keys of the row, also when the output map sends two keys
\* of the row to one target.
C24_SameRecordInEveryOrder ==
    TableHit => \A call \in Calls(last.in) : call.out = last.out

(***************************************************************************)
(* Properties of an input without a record.                                *)
(***************************************************************************)
\* The input is empty or holds whitespace only.
InputEmpty == \A i \in DOMAIN stdin.lines : stdin.lines[i].first = ""

\* C25: on an input that is empty or holds whitespace only, processInput
\* takes neither mode, calls processObject for no record, looks nothing up,
\* prints nothing, and the run ends as it ends after a return from main.
C25_EmptyInputDoesNothing ==
    InputEmpty =>
        /\ mode = "none"
        /\ pc \notin {"array", "line"}
        /\ ~last.called
        /\ last.lookup = "none"
        /\ idx = 0
        /\ dataArray = <<>>
        /\ resultsArray = NilSlice
        /\ stdout = <<>>
        /\ pc # "main" /\ ~mapping.err /\ (isDnsLookup \/ matcher # 0) =>
               /\ stderr = <<>>
               /\ exit # "fatal"
               /\ pc = "exit" => exit = "ok"

\* The run has ended on an input of two blank lines.
C25_Witness ==
    /\ InputEmpty
    /\ Len(stdin.lines) = 2
    /\ pc = "exit"
    /\ exit = "ok"

=============================================================================
